---------------------------- MODULE Spec2Model ----------------------------
(***************************************************************************)
(* The document store of the packaging editor (src/lib/store.ts) and the   *)
(* canvas handlers that drive it (rotation handle, change handlers).       *)
(*                                                                         *)
(* The zustand reducers set((state) => ...) are pure functions from the    *)
(* store state to the next store state: each is an operator over a record  *)
(* [nodes, selection, past, future] and each action applies one of them.   *)
(* The store's other fields (zoom, canvas rotation, assets, panel flags,    *)
(* pending placement) are read by none of the reducers modelled here and   *)
(* are left out.                                                           *)
(*                                                                         *)
(* The texture pipeline of the 3D preview: the canvas stage's debounced    *)
(* capture of the six box faces (updateFaceTextures and its timer),        *)
(* the preview store that versions the rasters (usePreviewStore) and the   *)
(* preview's effect that loads them into the materials.                    *)
(***************************************************************************)
EXTENDS Integers, Sequences, FiniteSets, TLC

VARIABLES
    nodes,            \* DocumentState.nodes: sequence of [id, data]
    selection,        \* DocumentState.selection: sequence of ids
    past,             \* DocumentState.past: sequence of node collections
    future,           \* DocumentState.future: sequence of node collections
    nextId,           \* the next id createRandomId hands out
    rotationSession,  \* rotationSessionRef.current
    lastOp,           \* observation: the operation of the last step
    trail,            \* observation: the edit calls of the current run
    gestureObs,       \* observation: the live updates of the current gesture
    heap,             \* the objects of the JavaScript heap, by address
    store,            \* the store over the heap: nodes, past and future hold addresses
    held,             \* the addresses of the objects a caller holds on to
    snap,             \* observation: each history entry's content when it was stored
    refSteps,         \* the number of allocating steps taken over the heap
    refOp,            \* observation: the last step taken over the heap
    mounted,          \* the page (canvas stage and 3D preview) is mounted
    canvasRotation,   \* DocumentState.rotation, the rotation of the stage
    scene,            \* the nodes drawn on the artwork layer, with their bounds
    showGrid,         \* the grid layer is rendered
    layers,           \* visibility of the overlay layers and of the transformer
    drawPending,      \* the stage has a redraw queued for the next frame
    faces,            \* PreviewState.faces: per face a raster and a version
    timers,           \* the timeouts that are set and have not fired
    textureUpdateTimerRef,  \* the id the canvas holds of its timeout (0: null)
    burst,            \* observation: time since the last trigger, runs since
    texObs,           \* observation: the last step of the texture pipeline
    faceVersionsRef,  \* the version the 3D preview recorded per face
    materialMap,      \* the texture each face's material shows
    loads,            \* the texture loads in flight
    facesSeen,        \* the faces the preview's effect last ran with
    previewObs,       \* observation: the last step of the 3D preview
    loadErrors,       \* the texture loads that failed since the page mounted
    zoom,             \* DocumentState.zoom, a number in thousandths or NaN
    viewObs,          \* observation: the last call on zoom or rotation
    sessionPointerId, \* rotationSessionRef.current.pointerId (0: no session)
    pointerObs,       \* observation: the last pointer event of the rotate handle
    dieline,          \* the dieline document of the canvas: its frame, or not loaded
    dielineObs,       \* observation: the last containment test of a shape
    dielineLoads,     \* the runs of the dieline load effect whose promise is pending
    error,            \* the error message the canvas shows (component state)
    loadObs,          \* observation: the last dieline load that settled
    pendingPlacement, \* DocumentState.pendingPlacement
    placementLoads,   \* the runs of the placement effect whose image is loading
    placementDeps,    \* the dependencies the placement effect last ran with
    placementObs,     \* observation: the placements queued and the nodes added for them
    imageLoads,       \* the runs of useImage whose image is loading
    images,           \* the image each image node's useImage holds (component state)
    imageObs,         \* observation: the last picture load that settled, the last size filled in
    resizeObs         \* observation: the last box the transformer's boundBoxFunc constrained

refVars == <<heap, store, held, snap, refSteps, refOp>>

stageVars == <<mounted, canvasRotation, scene, showGrid, layers, drawPending, faces,
               timers, textureUpdateTimerRef, burst, texObs>>

previewVars == <<faceVersionsRef, materialMap, loads, facesSeen, previewObs, loadErrors>>

texVars == <<stageVars, previewVars>>

viewVars == <<zoom, viewObs>>

pointerVars == <<sessionPointerId, pointerObs>>

dielineVars == <<dieline, dielineObs>>

asyncVars == <<dielineLoads, error, loadObs, pendingPlacement, placementLoads, placementDeps, placementObs,
               imageLoads, images, imageObs, resizeObs>>

otherVars == <<viewVars, pointerVars, dielineVars, asyncVars>>

vars == <<nodes, selection, past, future, nextId, rotationSession, lastOp, trail,
          gestureObs, refVars, texVars, otherVars>>

valVars == <<nodes, selection, past, future, nextId, rotationSession, lastOp, trail,
             gestureObs>>

(***************************************************************************)
(* Bounds of the model.                                                    *)
(***************************************************************************)
MaxIds == 2
MaxHist == 2
MaxK == 2
MaxRun == 2
MaxRefSteps == 4
TickMs == 130
MaxVersion == 2
MaxLoads == 7
MaxLoadErrors == 1
MaxLooks == 1
MaxSceneNodes == 1
MaxThrowAt == 2
MaxOrderIds == 3
MaxOrderHist == 4
MaxPointers == 2
MaxTextIds == 1
MaxTextHist == 3
MaxFrame == 100
MaxPending == 2

\* The placements queued in a behaviour, and the ids given to placed nodes.
MaxPlacements == 2

MaxPlaceIds == 3

\* The image nodes dropped, the history they may build and the picture loads
\* in flight.
MaxImageIds == 2

MaxImageHist == 4

MaxImageLoads == 2

(***************************************************************************)
(* Values.                                                                 *)
(***************************************************************************)
FullTurn == 360
QuarterTurn == 90
TEXTURE_UPDATE_DEBOUNCE_MS == 260
GRID_SIZE == 24
DEFAULT_TEXT_POSITION == 180

\* The rotations the pointer and the sliders deliver (raw, before normalizeRotation).
RotationInputs == {0 - QuarterTurn, FullTurn + QuarterTurn}

NoSession == [nodeId |-> 0, latestRotation |-> 0]

Range(s) == {s[i] : i \in 1..Len(s)}

Ids(ns) == [i \in 1..Len(ns) |-> ns[i].id]

\* The store state the reducers read.
State == [nodes |-> nodes, selection |-> selection, past |-> past, future |-> future]


(***************************************************************************)
(* Helpers of store.ts.                                                    *)
(***************************************************************************)

\* cloneNode: a new node object with the node's own fields and a new data
\* object holding the data's own fields ({...node, data: {...node.data}}).
cloneNode(node) ==
    [k \in DOMAIN node |->
        IF k = "data" THEN [f \in DOMAIN node.data |-> node.data[f]] ELSE node[k]]

cloneNodes(ns) == [i \in 1..Len(ns) |-> cloneNode(ns[i])]

\* hasShallowChanges that compares the two objects by reference only: the merged
\* data is always a new object.
hasShallowChangesMutantByReference(prev, next) == TRUE

\* hasShallowChanges: some key of either record whose values differ (a key
\* held by one record only differs from the other's undefined).
hasShallowChanges(prev, next) ==
    \E k \in (DOMAIN prev) \cup (DOMAIN next) :
        \/ (k \in DOMAIN prev) # (k \in DOMAIN next)
        \/ (k \in DOMAIN prev /\ k \in DOMAIN next /\ prev[k] # next[k])

\* { ...baseData, ...updates }
MergeData(baseData, updates) ==
    [k \in (DOMAIN baseData) \cup (DOMAIN updates) |->
        IF k \in DOMAIN updates THEN updates[k] ELSE baseData[k]]

\* Math.round(value / gridSize) * gridSize for a finite coordinate: the
\* nearest multiple of gridSize, a half rounded up.
snapToGrid(value, gridSize) == ((2 * value + gridSize) \div (2 * gridSize)) * gridSize

\* snapUpdatesToGrid: the updates (or a node's data) with a numeric x and y
\* snapped; same tells that the object passed in is the one returned.
\* gridSize 0 stands for null, no grid.
snapUpdatesToGrid(updates, gridSize) ==
    IF gridSize = 0 THEN [value |-> updates, same |-> TRUE]
    ELSE LET snapped == [k \in DOMAIN updates |->
                            IF k \in {"x", "y"} THEN snapToGrid(updates[k], gridSize)
                            ELSE updates[k]]
         IN  [value |-> snapped, same |-> snapped = updates]

\* snapDocumentNodeToGrid that always builds a new node.
snapDocumentNodeToGridMutantAlwaysNew(node, gridSize) ==
    [value |-> [node EXCEPT !.data = snapUpdatesToGrid(node.data, gridSize).value],
     same |-> FALSE]

\* snapDocumentNodeToGrid: image, pdf, shape and text nodes snap their data
\* the same way; the node itself is returned when its data came back.
snapDocumentNodeToGrid(node, gridSize) ==
    LET snappedData == snapUpdatesToGrid(node.data, gridSize)
    IN  IF snappedData.same THEN [value |-> node, same |-> TRUE]
        ELSE [value |-> [node EXCEPT !.data = snappedData.value], same |-> FALSE]

\* Array.findIndex on the node's id: 0 stands for the code's -1.
FindIndex(ns, nodeId) ==
    IF \E i \in 1..Len(ns) : ns[i].id = nodeId
    THEN CHOOSE i \in 1..Len(ns) :
            /\ ns[i].id = nodeId
            /\ \A j \in 1..(i - 1) : ns[j].id # nodeId
    ELSE 0

\* Array.splice(index, 1): the array without its element at index.
RemoveAt(ns, index) ==
    [i \in 1..(Len(ns) - 1) |-> IF i < index THEN ns[i] ELSE ns[i + 1]]

\* Array.splice(index, 0, node): the array with node put in at index.
InsertAt(ns, index, node) ==
    [i \in 1..(Len(ns) + 1) |->
        IF i < index THEN ns[i] ELSE IF i = index THEN node ELSE ns[i - 1]]

\* normalizeRotation (part_003): value % 360 in JavaScript keeps the sign of
\* the value; a negative remainder is moved up by 360.
JsRem(value, m) == IF value >= 0 THEN value % m ELSE 0 - ((0 - value) % m)

normalizeRotation(value) ==
    LET normalized == JsRem(value, FullTurn)
    IN  IF normalized < 0 THEN normalized + FullTurn ELSE normalized

(***************************************************************************)
(* The reducers of useDocumentStore.                                       *)
(***************************************************************************)

setSelection(s, sel) == [s EXCEPT !.selection = sel]

setNodes(s, ns) ==
    [s EXCEPT !.nodes = cloneNodes(ns),
              !.past = Append(s.past, cloneNodes(s.nodes)),
              !.future = <<>>]

addNode(s, node) ==
    [s EXCEPT !.nodes = Append(s.nodes, cloneNode(node)),
              !.past = Append(s.past, cloneNodes(s.nodes)),
              !.future = <<>>]

\* deleteSelection that forgets the history entry.
deleteSelectionMutantNoPush(s) ==
    IF Len(s.selection) = 0 THEN s
    ELSE LET Keep(node) == node.id \notin Range(s.selection)
             remainingNodes == SelectSeq(s.nodes, Keep)
         IN  IF Len(remainingNodes) = Len(s.nodes) THEN s
             ELSE [s EXCEPT !.nodes = cloneNodes(remainingNodes),
                            !.future = <<>>,
                            !.selection = <<>>]

deleteSelection(s) ==
    IF Len(s.selection) = 0 THEN s
    ELSE LET Keep(node) == node.id \notin Range(s.selection)
             remainingNodes == SelectSeq(s.nodes, Keep)
         IN  IF Len(remainingNodes) = Len(s.nodes) THEN s
             ELSE [s EXCEPT !.nodes = cloneNodes(remainingNodes),
                            !.past = Append(s.past, cloneNodes(s.nodes)),
                            !.future = <<>>,
                            !.selection = <<>>]

\* undo that leaves the selection as it is.
undoMutantKeepSelection(s) ==
    IF Len(s.past) = 0 THEN s
    ELSE [s EXCEPT !.nodes = cloneNodes(s.past[Len(s.past)]),
                   !.past = SubSeq(s.past, 1, Len(s.past) - 1),
                   !.future = <<cloneNodes(s.nodes)>> \o s.future]

\* undo that restores the oldest entry of past instead of the newest.
undoMutantOldest(s) ==
    IF Len(s.past) = 0 THEN s
    ELSE LET previous == s.past[1]
             updatedPast == SubSeq(s.past, 1, Len(s.past) - 1)
         IN  [s EXCEPT !.nodes = cloneNodes(previous),
                       !.past = updatedPast,
                       !.future = <<cloneNodes(s.nodes)>> \o s.future,
                       !.selection = <<>>]

undo(s) ==
    IF Len(s.past) = 0 THEN s
    ELSE LET previous == s.past[Len(s.past)]
             updatedPast == SubSeq(s.past, 1, Len(s.past) - 1)
         IN  [s EXCEPT !.nodes = cloneNodes(previous),
                       !.past = updatedPast,
                       !.future = <<cloneNodes(s.nodes)>> \o s.future,
                       !.selection = <<>>]

\* redo that does not put the current collection back onto past.
redoMutantNoPush(s) ==
    IF Len(s.future) = 0 THEN s
    ELSE LET next == Head(s.future)
             rest == Tail(s.future)
         IN  [s EXCEPT !.nodes = cloneNodes(next),
                       !.future = rest,
                       !.selection = <<>>]

\* redo that adds the redone nodes to the current ones instead of replacing them.
redoMutantAppend(s) ==
    IF Len(s.future) = 0 THEN s
    ELSE LET next == Head(s.future)
             rest == Tail(s.future)
         IN  [s EXCEPT !.nodes = cloneNodes(s.nodes \o next),
                       !.past = Append(s.past, cloneNodes(s.nodes)),
                       !.future = rest,
                       !.selection = <<>>]

redo(s) ==
    IF Len(s.future) = 0 THEN s
    ELSE LET next == Head(s.future)
             rest == Tail(s.future)
         IN  [s EXCEPT !.nodes = cloneNodes(next),
                       !.past = Append(s.past, cloneNodes(s.nodes)),
                       !.future = rest,
                       !.selection = <<>>]

\* updateNode that ignores options.commit and always records history.
updateNodeMutantAlwaysCommit(s, nodeId, updates, commit) ==
    LET index == FindIndex(s.nodes, nodeId)
    IN  IF index = 0 THEN s
        ELSE LET node == s.nodes[index]
                 nextData == MergeData(node.data, updates)
                 nextNodes == [s.nodes EXCEPT ![index] =
                                  [node EXCEPT !.data = nextData]]
             IN  IF ~hasShallowChanges(node.data, nextData) THEN s
                 ELSE [s EXCEPT !.nodes = cloneNodes(nextNodes),
                                !.past = Append(s.past, cloneNodes(s.nodes)),
                                !.future = <<>>]

\* updateNode that leaves future as it is on a committing update.
updateNodeMutantKeepFuture(s, nodeId, updates, commit) ==
    LET index == FindIndex(s.nodes, nodeId)
    IN  IF index = 0 THEN s
        ELSE LET node == s.nodes[index]
                 nextData == MergeData(node.data, updates)
                 nextNodes == [s.nodes EXCEPT ![index] =
                                  [node EXCEPT !.data = nextData]]
             IN  IF ~hasShallowChanges(node.data, nextData) THEN s
                 ELSE IF commit = FALSE
                 THEN [s EXCEPT !.nodes = cloneNodes(nextNodes)]
                 ELSE [s EXCEPT !.nodes = cloneNodes(nextNodes),
                                !.past = Append(s.past, cloneNodes(s.nodes))]

updateNode(s, nodeId, updates, commit) ==
    LET index == FindIndex(s.nodes, nodeId)
    IN  IF index = 0 THEN s
        ELSE LET node == s.nodes[index]
                 nextData == MergeData(node.data, updates)
                 nextNodes == [s.nodes EXCEPT ![index] =
                                  [node EXCEPT !.data = nextData]]
             IN  IF ~hasShallowChanges(node.data, nextData) THEN s
                 ELSE IF commit = FALSE
                 THEN [s EXCEPT !.nodes = cloneNodes(nextNodes)]
                 ELSE [s EXCEPT !.nodes = cloneNodes(nextNodes),
                                !.past = Append(s.past, cloneNodes(s.nodes)),
                                !.future = <<>>]

\* rotateSelectionClockwise's map callback without the selection test.
RotatedNodeMutantEveryNode(s, node) ==
    IF "rotation" \notin DOMAIN node.data THEN node
    ELSE [node EXCEPT !.data = MergeData(node.data,
             [rotation |-> (node.data.rotation + QuarterTurn) % FullTurn])]

\* The node after rotateSelectionClockwise's map callback.
RotatedNode(s, node) ==
    IF node.id \notin Range(s.selection) THEN node
    ELSE IF "rotation" \notin DOMAIN node.data THEN node
    ELSE LET currentRotation == node.data.rotation
             nextRotation ==
                 JsRem(JsRem(currentRotation + QuarterTurn, FullTurn) + FullTurn, FullTurn)
         IN  IF nextRotation = currentRotation THEN node
             ELSE [node EXCEPT !.data = MergeData(node.data, [rotation |-> nextRotation])]

rotateSelectionClockwise(s) ==
    IF Len(s.selection) = 0 THEN s
    ELSE LET nextNodes == [i \in 1..Len(s.nodes) |-> RotatedNode(s, s.nodes[i])]
             hasUpdates == \E i \in 1..Len(s.nodes) : nextNodes[i] # s.nodes[i]
         IN  IF ~hasUpdates THEN s
             ELSE [s EXCEPT !.nodes = cloneNodes(nextNodes),
                            !.past = Append(s.past, cloneNodes(s.nodes)),
                            !.future = <<>>]

\* bringSelectionToFront that moves the node one position later only.
bringSelectionToFrontMutantOneStep(s) ==
    IF Len(s.selection) = 0 THEN s
    ELSE LET selectedId == s.selection[Len(s.selection)]
             index == FindIndex(s.nodes, selectedId)
         IN  IF index = 0 \/ index = Len(s.nodes) THEN s
             ELSE LET nextNodes == InsertAt(RemoveAt(s.nodes, index), index + 1, s.nodes[index])
                  IN  [s EXCEPT !.nodes = cloneNodes(nextNodes),
                                !.past = Append(s.past, cloneNodes(s.nodes)),
                                !.future = <<>>]

\* sendSelectionBackward that moves the node to the first position.
sendSelectionBackwardMutantToBack(s) ==
    IF Len(s.selection) = 0 THEN s
    ELSE LET selectedId == s.selection[Len(s.selection)]
             index == FindIndex(s.nodes, selectedId)
         IN  IF index <= 1 THEN s
             ELSE LET nextNodes == InsertAt(RemoveAt(s.nodes, index), 1, s.nodes[index])
                  IN  [s EXCEPT !.nodes = cloneNodes(nextNodes),
                                !.past = Append(s.past, cloneNodes(s.nodes)),
                                !.future = <<>>]

bringSelectionToFront(s) ==
    IF Len(s.selection) = 0 THEN s
    ELSE LET selectedId == s.selection[Len(s.selection)]
             index == FindIndex(s.nodes, selectedId)
         IN  IF index = 0 \/ index = Len(s.nodes) THEN s
             ELSE LET nextNodes == Append(RemoveAt(s.nodes, index), s.nodes[index])
                  IN  [s EXCEPT !.nodes = cloneNodes(nextNodes),
                                !.past = Append(s.past, cloneNodes(s.nodes)),
                                !.future = <<>>]

sendSelectionBackward(s) ==
    IF Len(s.selection) = 0 THEN s
    ELSE LET selectedId == s.selection[Len(s.selection)]
             index == FindIndex(s.nodes, selectedId)
         IN  IF index <= 1 THEN s
             ELSE LET nextNodes ==
                          InsertAt(RemoveAt(s.nodes, index), index - 1, s.nodes[index])
                  IN  [s EXCEPT !.nodes = cloneNodes(nextNodes),
                                !.past = Append(s.past, cloneNodes(s.nodes)),
                                !.future = <<>>]


(***************************************************************************)
(* The callers: canvas and panel handlers.                                 *)
(***************************************************************************)

\* createRandomId: an id no node was given before.
createRandomId == nextId

\* The node handleDrop builds for a dropped shape.
DroppedNode(newId) ==
    [id |-> newId, type |-> "shape",
     data |-> [rotation |-> 0, opacity |-> 1]]

\* The partial data the change handlers and panels pass on.
DataUpdates == {[rotation |-> normalizeRotation(r)] : r \in RotationInputs}

\* nodes.map(...) of handleShapeNodeChange: the node with the given id gets
\* the updates merged into its data, every other node is passed on as it is.
MapNodeChange(ns, nodeId, updates) ==
    [i \in 1..Len(ns) |->
        IF ns[i].type # "shape" \/ ns[i].id # nodeId THEN ns[i]
        ELSE [ns[i] EXCEPT !.data = MergeData(ns[i].data, updates)]]

\* The node collections a handler's closure holds when it was made by a render
\* older than the store's last change.
StaleNodes == Range(past) \cup Range(future)

\* primarySelectedNodeId / primarySelectedNode of the canvas (0: none).
PrimarySelectedIndex(s) ==
    IF Len(s.selection) = 0 THEN 0
    ELSE FindIndex(s.nodes, s.selection[Len(s.selection)])

\* getNodeRotationValue: the rotation of a shape node's data.
getNodeRotationValue(node) == node.data.rotation

\* handleRotationCommit of the properties panel.
handleRotationCommit(s, nodeId, value, commit) ==
    updateNode(s, nodeId, [rotation |-> normalizeRotation(value)], commit)

handleRotatePointerMove(s, session, value) ==
    updateNode(s, session.nodeId, [rotation |-> normalizeRotation(value)], FALSE)

handleRotatePointerUp(s, session) ==
    updateNode(s, session.nodeId,
               [rotation |-> normalizeRotation(session.latestRotation)], TRUE)

(***************************************************************************)
(* Observations kept beside the program state.                             *)
(*   lastOp: the operation of the last step and whether it changed the     *)
(*           store.                                                        *)
(*   trail:  one entry per edit call of the current run of edit calls and  *)
(*           undos: the collection held before the call, whether the call  *)
(*           pushed a history entry (eff), whether nothing but edit calls  *)
(*           and undos followed it so far (pure), and whether a redo was   *)
(*           possible before it (redoable).  The trail keeps the last      *)
(*           MaxRun calls.                                                 *)
(*   gestureObs: the run of updateNode calls with commit:false on one node *)
(*           that is under way or was just ended by a committing           *)
(*           updateNode on that node: their number (up to MaxK), the       *)
(*           collection and the length of past before the first of them,   *)
(*           the rotation the last of them passed, and, once ended,        *)
(*           whether the committing call passed that same rotation.        *)
(***************************************************************************)
LastN(q, n) == IF Len(q) <= n THEN q ELSE SubSeq(q, Len(q) - n + 1, Len(q))

Observed(name, t) == [name |-> name, changed |-> t # State]

TrailAfterEdit(t) ==
    LastN(Append(trail, [nodes |-> nodes,
                         eff |-> Len(t.past) = Len(past) + 1,
                         pure |-> TRUE,
                         redoable |-> future # <<>>]), MaxRun)

TrailAfterUndo ==
    IF trail = <<>> THEN <<>>
    ELSE LET rest == SubSeq(trail, 1, Len(trail) - 1)
         IN  IF trail[Len(trail)].eff THEN rest
             ELSE [i \in 1..Len(rest) |-> [rest[i] EXCEPT !.eff = FALSE]]

Impure(tr) == [i \in 1..Len(tr) |-> [tr[i] EXCEPT !.pure = FALSE]]

NoObs ==
    [nodeId |-> 0, moves |-> 0, pastLen |-> 0, before |-> <<>>, lastValue |-> 0,
     ended |-> FALSE, same |-> FALSE]

ObsAfterLive(nodeId, value) ==
    IF gestureObs.nodeId = nodeId /\ ~gestureObs.ended
    THEN [gestureObs EXCEPT !.moves = IF @ < MaxK THEN @ + 1 ELSE @,
                            !.lastValue = value]
    ELSE [nodeId |-> nodeId, moves |-> 1, pastLen |-> Len(past), before |-> nodes,
          lastValue |-> value, ended |-> FALSE, same |-> FALSE]

ObsAfterCommit(nodeId, value) ==
    IF gestureObs.nodeId = nodeId /\ ~gestureObs.ended
    THEN [gestureObs EXCEPT !.ended = TRUE, !.same = (value = gestureObs.lastValue)]
    ELSE NoObs

\* The store becomes t.
Becomes(t) ==
    /\ Len(t.past) <= MaxHist
    /\ nodes' = t.nodes
    /\ selection' = t.selection
    /\ past' = t.past
    /\ future' = t.future

(***************************************************************************)
(* Actions.                                                                *)
(***************************************************************************)

\* handleDrop: addNode(node); setSelection([node.id]).
HandleDrop ==
    /\ nextId <= MaxIds
    /\ LET node == DroppedNode(createRandomId)
           t == addNode(State, node)
       IN  /\ Becomes(setSelection(t, <<node.id>>))
           /\ trail' = Impure(TrailAfterEdit(t))
           /\ lastOp' = Observed("addNode", t)
    /\ nextId' = nextId + 1
    /\ gestureObs' = NoObs
    /\ UNCHANGED <<rotationSession, refVars, texVars, otherVars>>

\* handleNodeSelect / a click on the empty stage.
HandleNodeSelect ==
    /\ \E sel \in {<<>>} \cup {<<nodes[i].id>> : i \in 1..Len(nodes)} :
          LET t == setSelection(State, sel)
          IN  /\ Becomes(t)
              /\ lastOp' = Observed("setSelection", t)
    /\ trail' = Impure(trail)
    /\ gestureObs' = NoObs
    /\ UNCHANGED <<nextId, rotationSession, refVars, texVars, otherVars>>

\* handleShapeNodeChange: setNodes(nodes.map(...)), the handler's nodes being
\* those of the last render.
HandleShapeNodeChange ==
    /\ \E updates \in DataUpdates, i \in 1..Len(nodes) :
          LET t == setNodes(State, MapNodeChange(nodes, nodes[i].id, updates))
          IN  /\ Becomes(t)
              /\ trail' = TrailAfterEdit(t)
              /\ lastOp' = Observed("setNodes", t)
    /\ gestureObs' = NoObs
    /\ UNCHANGED <<nextId, rotationSession, refVars, texVars, otherVars>>

\* handleShapeNodeChange run from a closure of an earlier render.
HandleShapeNodeChangeStale ==
    /\ \E base \in StaleNodes, updates \in DataUpdates :
          \E i \in 1..Len(base) :
             LET t == setNodes(State, MapNodeChange(base, base[i].id, updates))
             IN  /\ Becomes(t)
                 /\ lastOp' = Observed("setNodesStale", t)
    /\ trail' = <<>>
    /\ gestureObs' = NoObs
    /\ UNCHANGED <<nextId, rotationSession, refVars, texVars, otherVars>>

DeleteSelection ==
    /\ LET t == deleteSelection(State)
       IN  /\ Becomes(t)
           /\ trail' = TrailAfterEdit(t)
           /\ lastOp' = Observed("deleteSelection", t)
    /\ gestureObs' = NoObs
    /\ UNCHANGED <<nextId, rotationSession, refVars, texVars, otherVars>>

\* The undo and redo buttons of the top bar are disabled while there is
\* nothing to undo or to redo.
canUndo == Len(past) > 0

canRedo == Len(future) > 0

Undo ==
    /\ canUndo
    /\ LET t == undo(State)
       IN  /\ Becomes(t)
           /\ lastOp' = Observed("undo", t)
    /\ trail' = TrailAfterUndo
    /\ gestureObs' = NoObs
    /\ UNCHANGED <<nextId, rotationSession, refVars, texVars, otherVars>>

Redo ==
    /\ canRedo
    /\ LET t == redo(State)
       IN  /\ Becomes(t)
           /\ lastOp' = Observed("redo", t)
    /\ trail' = <<>>
    /\ gestureObs' = NoObs
    /\ UNCHANGED <<nextId, rotationSession, refVars, texVars, otherVars>>

RotateSelectionClockwise ==
    /\ LET t == rotateSelectionClockwise(State)
       IN  /\ Becomes(t)
           /\ trail' = TrailAfterEdit(t)
           /\ lastOp' = Observed("rotateSelectionClockwise", t)
    /\ gestureObs' = NoObs
    /\ UNCHANGED <<nextId, rotationSession, refVars, texVars, otherVars>>

BringSelectionToFront ==
    /\ LET t == bringSelectionToFront(State)
       IN  /\ Becomes(t)
           /\ trail' = TrailAfterEdit(t)
           /\ lastOp' = Observed("bringSelectionToFront", t)
    /\ gestureObs' = NoObs
    /\ UNCHANGED <<nextId, rotationSession, refVars, texVars, otherVars>>

SendSelectionBackward ==
    /\ LET t == sendSelectionBackward(State)
       IN  /\ Becomes(t)
           /\ trail' = TrailAfterEdit(t)
           /\ lastOp' = Observed("sendSelectionBackward", t)
    /\ gestureObs' = NoObs
    /\ UNCHANGED <<nextId, rotationSession, refVars, texVars, otherVars>>

\* handleRotationCommit(value, commit) of the properties panel: the slider's
\* onChange passes commit false; its onPointerUp and onKeyUp, and the commit of
\* the rotation text field, pass commit true.
HandleRotationCommit ==
    /\ PrimarySelectedIndex(State) # 0
    /\ \E value \in RotationInputs, commit \in BOOLEAN :
          LET nodeId == nodes[PrimarySelectedIndex(State)].id
              t == handleRotationCommit(State, nodeId, value, commit)
          IN  /\ Becomes(t)
              /\ trail' = IF commit THEN TrailAfterEdit(t) ELSE <<>>
              /\ lastOp' = Observed(IF commit THEN "updateNode" ELSE "updateNodeLive", t)
              /\ gestureObs' = IF commit THEN ObsAfterCommit(nodeId, normalizeRotation(value))
                               ELSE ObsAfterLive(nodeId, normalizeRotation(value))
    /\ UNCHANGED <<nextId, rotationSession, refVars, texVars, otherVars>>

HandleRotatePointerDown ==
    /\ PrimarySelectedIndex(State) # 0
    /\ LET node == nodes[PrimarySelectedIndex(State)]
           initialRotation == normalizeRotation(getNodeRotationValue(node))
       IN  rotationSession' = [nodeId |-> node.id, latestRotation |-> initialRotation]
    /\ trail' = <<>>
    /\ lastOp' = Observed("rotatePointerDown", State)
    /\ gestureObs' = NoObs
    /\ UNCHANGED <<nodes, selection, past, future, nextId, refVars, texVars, otherVars>>

HandleRotatePointerMove ==
    /\ rotationSession # NoSession
    /\ \E value \in RotationInputs :
          LET t == handleRotatePointerMove(State, rotationSession, value)
          IN  /\ rotationSession' = [rotationSession EXCEPT !.latestRotation = value]
              /\ Becomes(t)
              /\ lastOp' = Observed("rotatePointerMove", t)
              /\ gestureObs' = ObsAfterLive(rotationSession.nodeId, normalizeRotation(value))
    /\ trail' = <<>>
    /\ UNCHANGED <<nextId, refVars, texVars, otherVars>>

HandleRotatePointerUp ==
    /\ rotationSession # NoSession
    /\ rotationSession' = NoSession
    /\ LET t == handleRotatePointerUp(State, rotationSession)
       IN  /\ Becomes(t)
           /\ trail' = TrailAfterEdit(t)
           /\ lastOp' = Observed("rotatePointerUp", t)
    /\ gestureObs' = ObsAfterCommit(rotationSession.nodeId,
                                    normalizeRotation(rotationSession.latestRotation))
    /\ UNCHANGED <<nextId, refVars, texVars, otherVars>>

(***************************************************************************)
(* The texture pipeline: the canvas stage rasterizes each face of the box  *)
(* after a debounce delay and publishes the rasters to the preview store;  *)
(* the 3D preview reloads the textures whose version changed.              *)
(*                                                                         *)
(* A raster (the data URL of stage.toDataURL) is modelled by what it       *)
(* shows: the parts of the nodes that lie in the captured rectangle, the   *)
(* overlays that are visible, and the rotation of the stage when anything  *)
(* is shown.  Null is the raster a face has before its first capture.      *)
(***************************************************************************)
BOX_FACE_ORDER == <<"front", "right", "back", "left", "top", "bottom">>

BoxFaceKey == Range(BOX_FACE_ORDER)

BOX_FACE_CONFIG ==
    [front  |-> [rect |-> [x |-> 220, y |-> 260, width |-> 380, height |-> 140]],
     back   |-> [rect |-> [x |-> 220, y |-> 120, width |-> 380, height |-> 140]],
     left   |-> [rect |-> [x |-> 100, y |-> 180, width |-> 120, height |-> 160]],
     right  |-> [rect |-> [x |-> 600, y |-> 180, width |-> 120, height |-> 160]],
     top    |-> [rect |-> [x |-> 220, y |-> 60, width |-> 380, height |-> 60]],
     bottom |-> [rect |-> [x |-> 220, y |-> 400, width |-> 380, height |-> 60]]]

Null == <<>>

createInitialFaces == [key \in BoxFaceKey |-> [dataUrl |-> Null, version |-> 0]]

\* setFaceTextures that gives every face named in the updates a new version.
setFaceTexturesMutantAlwaysBump(fs, updates) ==
    [key \in BoxFaceKey |->
        IF key \in DOMAIN updates
        THEN [dataUrl |-> updates[key], version |-> fs[key].version + 1]
        ELSE fs[key]]

\* setFaceTextures that takes the version from the number of faces it changed.
setFaceTexturesMutantSharedCounter(fs, updates) ==
    LET changed == {key \in DOMAIN updates : fs[key].dataUrl # updates[key]}
    IN  [key \in BoxFaceKey |->
            IF key \in changed
            THEN [dataUrl |-> updates[key],
                  version |-> fs[key].version + Cardinality(changed)]
            ELSE fs[key]]

\* setFaceTextures: updates is a function from some faces to rasters (Null
\* for null and undefined).  A named face whose raster differs gets the raster
\* and the next version; with no such face the state is returned as it is.
setFaceTextures(fs, updates) ==
    IF DOMAIN updates = {} THEN fs
    ELSE [key \in BoxFaceKey |->
            IF key \in DOMAIN updates /\ fs[key].dataUrl # updates[key]
            THEN [dataUrl |-> updates[key], version |-> fs[key].version + 1]
            ELSE fs[key]]

resetFaceTextures == createInitialFaces

\* Two rectangles share a region of positive area.
Overlaps(a, b) ==
    /\ a.x < b.x + b.width
    /\ b.x < a.x + a.width
    /\ a.y < b.y + b.height
    /\ b.y < a.y + a.height

Max(a, b) == IF a >= b THEN a ELSE b

Min(a, b) == IF a <= b THEN a ELSE b

\* The part of rectangle a that lies in rectangle b.
Clip(a, b) ==
    [x |-> Max(a.x, b.x), y |-> Max(a.y, b.y),
     width |-> Min(a.x + a.width, b.x + b.width) - Max(a.x, b.x),
     height |-> Min(a.y + a.height, b.y + b.height) - Max(a.y, b.y)]

\* getDocumentNodeBounds: the rectangle of a node.
getDocumentNodeBounds(node) == node.box

\* stage.toDataURL over the rectangle of a face: what the stage shows there.
\* An overlay that is visible is part of every capture.
toDataURL(faceKey, scn, stageRotation, ls) ==
    LET rect == BOX_FACE_CONFIG[faceKey].rect
        parts == {[id |-> n.id, look |-> n.look,
                   part |-> Clip(getDocumentNodeBounds(n), rect)] :
                     n \in {m \in scn : Overlaps(getDocumentNodeBounds(m), rect)}}
        overlays == {k \in DOMAIN ls : ls[k]}
    IN  <<parts, overlays, IF parts = {} THEN 0 ELSE stageRotation>>

\* The layers updateFaceTextures toggles: background and dieline, and the grid
\* layer while it is rendered.
LayersToToggle(grid) == {"background", "dieline"} \cup (IF grid THEN {"grid"} ELSE {})

\* The faces captured before the capture of the face at position throwAt
\* throws (0: no capture throws).
CapturedFaces(throwAt) ==
    {BOX_FACE_ORDER[i] : i \in 1..(IF throwAt = 0 THEN Len(BOX_FACE_ORDER) ELSE throwAt - 1)}

\* updateFaceTextures without the finally block: the overlays are shown again
\* only when no capture threw.
updateFaceTexturesMutantNoFinally(closureRotation, scn, stageRotation, grid, ls, throwAt) ==
    LET toggled == LayersToToggle(grid)
        hidden == [k \in DOMAIN ls |-> IF k \in toggled THEN FALSE
                                       ELSE IF k = "transformer" THEN FALSE ELSE ls[k]]
        shown == [k \in DOMAIN ls |-> IF k \in toggled THEN TRUE
                                      ELSE IF k = "transformer" THEN ls.transformer
                                      ELSE ls[k]]
    IN  [ran |-> TRUE,
         layers |-> IF throwAt = 0 THEN shown ELSE hidden,
         updates |-> [key \in CapturedFaces(throwAt) |->
                         toDataURL(key, scn, stageRotation, hidden)]]

\* updateFaceTextures: returns early when the rotation of its closure is not
\* a multiple of 360; hides the overlays and the transformer, captures the
\* faces in BOX_FACE_ORDER into updates until a capture throws, shows the
\* overlays again and gives the transformer its visibility back (finally).
\* The result holds the layers after the run and the updates passed to
\* setFaceTextures (none when updates is empty).
updateFaceTextures(closureRotation, scn, stageRotation, grid, ls, throwAt) ==
    IF closureRotation % FullTurn # 0
    THEN [ran |-> FALSE, layers |-> ls, updates |-> <<>>]
    ELSE LET toggled == LayersToToggle(grid)
             transformerWasVisible == ls.transformer
             hidden == [k \in DOMAIN ls |->
                           IF k \in toggled THEN FALSE
                           ELSE IF k = "transformer" /\ transformerWasVisible THEN FALSE
                           ELSE ls[k]]
             updates == [key \in CapturedFaces(throwAt) |->
                            toDataURL(key, scn, stageRotation, hidden)]
             restored == [k \in DOMAIN ls |->
                             IF k \in toggled THEN TRUE
                             ELSE IF k = "transformer" THEN transformerWasVisible
                             ELSE hidden[k]]
         IN  [ran |-> TRUE, layers |-> restored, updates |-> updates]

\* A timer id that no pending timeout has.
NewTimerId(ts) == CHOOSE i \in 1..(Cardinality(ts) + 1) : \A t \in ts : t.id # i

\* scheduleTextureUpdate that sets a timeout without clearing the one it holds.
scheduleTextureUpdateMutantNoClear(ts, ref, closureRotation) ==
    [timers |-> ts \cup {[id |-> NewTimerId(ts), remaining |-> TEXTURE_UPDATE_DEBOUNCE_MS,
                          rotation |-> closureRotation]},
     ref |-> NewTimerId(ts)]

\* scheduleTextureUpdate: clears the timeout whose id the ref holds and sets a
\* new one, whose callback runs the updateFaceTextures of the render that made
\* it (and so reads that render's canvasRotation).
scheduleTextureUpdate(ts, ref, closureRotation) ==
    LET cleared == IF ref # 0 THEN {t \in ts : t.id # ref} ELSE ts
        id == NewTimerId(cleared)
    IN  [timers |-> cleared \cup {[id |-> id, remaining |-> TEXTURE_UPDATE_DEBOUNCE_MS,
                                   rotation |-> closureRotation]},
         ref |-> id]

\* The bounds a node may have: inside face front, inside front further right,
\* across the edge of front and right.  Every corner is on
\* the grid, so handleToggleGrid's snapping leaves the nodes where they are.
NodeBoxes ==
    {[x |-> 312, y |-> 288, width |-> 96, height |-> 48],
     [x |-> 408, y |-> 288, width |-> 96, height |-> 48],
     [x |-> 552, y |-> 288, width |-> 96, height |-> 48]}

\* The nodes the artwork layer may draw (look: what the node's data other
\* than its bounds makes it look like).
SceneNodes == [id : 1..MaxSceneNodes, look : 1..MaxLooks, box : NodeBoxes]

NoTexObs == [op |-> "none", ran |-> FALSE, thrown |-> FALSE, named |-> {}, coalesced |-> 0]

TexObserved(name) == [NoTexObs EXCEPT !.op = name]

UnseenFaces == [key \in BoxFaceKey |-> [dataUrl |-> Null, version |-> 0 - 1]]

NoPreviewObs == [op |-> "none", touched |-> {}, stale |-> FALSE]

NoVersions == [key \in BoxFaceKey |-> 0 - 1]

NoMaterialMap == [key \in BoxFaceKey |-> [dataUrl |-> Null, version |-> 0 - 1]]

\* A trigger: scheduleTextureUpdate of the current render.
Triggered ==
    LET r == scheduleTextureUpdate(timers, textureUpdateTimerRef, canvasRotation)
    IN  /\ timers' = r.timers
        /\ textureUpdateTimerRef' = r.ref
        /\ burst' = [since |-> 0, runs |-> 0, triggers |-> Min(burst.triggers + 1, MaxK)]

\* The effect on [nodes, canvasRotation, showGrid, ...] after a render with
\* the given rotation: schedules unless the canvas is rotated.
EffectAfterRender(rotation) ==
    IF rotation % FullTurn # 0
    THEN UNCHANGED <<timers, textureUpdateTimerRef, burst>>
    ELSE LET r == scheduleTextureUpdate(timers, textureUpdateTimerRef, rotation)
         IN  /\ timers' = r.timers
             /\ textureUpdateTimerRef' = r.ref
             /\ burst' = [since |-> 0, runs |-> 0, triggers |-> Min(burst.triggers + 1, MaxK)]

\* The page mounts: the canvas stage with a new timer ref and its own state,
\* the 3D preview with new refs and materials.  The stores outlive the page.
Mount ==
    /\ ~mounted
    /\ mounted' = TRUE
    /\ showGrid' = FALSE
    /\ layers' = [background |-> TRUE, dieline |-> TRUE, grid |-> FALSE,
                  transformer |-> FALSE]
    /\ drawPending' = TRUE
    /\ LET r == IF canvasRotation % FullTurn # 0
                THEN [timers |-> timers, ref |-> 0]
                ELSE scheduleTextureUpdate(timers, 0, canvasRotation)
       IN  /\ timers' = r.timers
           /\ textureUpdateTimerRef' = r.ref
    /\ burst' = [since |-> 0, runs |-> 0, triggers |-> Min(burst.triggers + 1, MaxK)]
    /\ texObs' = TexObserved("mount")
    /\ faceVersionsRef' = NoVersions
    /\ materialMap' = NoMaterialMap
    /\ loads' = {}
    /\ facesSeen' = UnseenFaces
    /\ previewObs' = NoPreviewObs
    /\ loadErrors' = 0
    /\ UNCHANGED <<canvasRotation, scene, faces, valVars, refVars, otherVars>>

\* An edit of the document changes, adds or removes one node of the scene;
\* the canvas renders again and its effect on nodes runs.
SceneChange ==
    /\ mounted
    /\ \E n \in SceneNodes, remove \in BOOLEAN :
        /\ remove => \E m \in scene : m = n
        /\ scene' = IF remove THEN scene \ {n}
                    ELSE {m \in scene : m.id # n.id} \cup {n}
        /\ scene' # scene
    /\ drawPending' = TRUE
    /\ EffectAfterRender(canvasRotation)
    /\ texObs' = TexObserved("sceneChange")
    /\ UNCHANGED <<mounted, canvasRotation, showGrid, layers, faces, previewVars, valVars, refVars, otherVars>>

rotateCanvasLeft(rotation) ==
    JsRem(JsRem(rotation - QuarterTurn, FullTurn) + FullTurn, FullTurn)

rotateCanvasRight(rotation) ==
    JsRem(JsRem(rotation + QuarterTurn, FullTurn) + FullTurn, FullTurn)

RotateCanvasLeft ==
    /\ mounted
    /\ canvasRotation' = rotateCanvasLeft(canvasRotation)
    /\ drawPending' = TRUE
    /\ EffectAfterRender(canvasRotation')
    /\ texObs' = TexObserved("rotateCanvas")
    /\ UNCHANGED <<mounted, scene, showGrid, layers, faces, previewVars, valVars, refVars, otherVars>>

RotateCanvasRight ==
    /\ mounted
    /\ canvasRotation' = rotateCanvasRight(canvasRotation)
    /\ drawPending' = TRUE
    /\ EffectAfterRender(canvasRotation')
    /\ texObs' = TexObserved("rotateCanvas")
    /\ UNCHANGED <<mounted, scene, showGrid, layers, faces, previewVars, valVars, refVars, otherVars>>

\* handleToggleGrid: the grid layer is rendered (visible) or removed and the
\* effect on showGrid runs; when the grid is switched on every node is
\* snapped to it, and setNodes is called if a node changed.
HandleToggleGrid ==
    /\ mounted
    /\ showGrid' = ~showGrid
    /\ layers' = [layers EXCEPT !.grid = ~showGrid]
    /\ drawPending' = TRUE
    /\ EffectAfterRender(canvasRotation)
    /\ texObs' = TexObserved("toggleGrid")
    /\ LET nextShowGrid == ~showGrid
           snappedNodes == [i \in 1..Len(nodes) |->
                               snapDocumentNodeToGrid(nodes[i], GRID_SIZE)]
           hasChanges == \E i \in 1..Len(nodes) : ~snappedNodes[i].same
       IN  IF nextShowGrid /\ hasChanges
           THEN LET t == setNodes(State, [i \in 1..Len(nodes) |-> snappedNodes[i].value])
                IN  /\ Len(t.past) <= MaxTextHist
                    /\ nodes' = t.nodes
                    /\ past' = t.past
                    /\ future' = t.future
                    /\ lastOp' = Observed("toggleGrid", t)
                    /\ UNCHANGED <<selection, nextId, rotationSession, trail, gestureObs>>
           ELSE /\ lastOp' = IF nodes = <<>> THEN lastOp
                               ELSE [name |-> "toggleGrid", changed |-> FALSE]
                /\ UNCHANGED <<nodes, selection, past, future, nextId, rotationSession,
                               trail, gestureObs>>
    /\ UNCHANGED <<mounted, canvasRotation, scene, faces, previewVars, refVars, otherVars>>

\* handleToggleBounds: the transformer is rendered visible or not.
HandleToggleBounds ==
    /\ mounted
    /\ layers' = [layers EXCEPT !.transformer = ~layers.transformer]
    /\ drawPending' = TRUE
    /\ texObs' = TexObserved("toggleBounds")
    /\ UNCHANGED <<mounted, canvasRotation, scene, showGrid, faces, timers,
                   textureUpdateTimerRef, burst, previewVars, valVars, refVars, otherVars>>

\* The artwork layer's draw event in the frame after a change of the stage.
HandleDraw ==
    /\ mounted
    /\ drawPending
    /\ drawPending' = FALSE
    /\ Triggered
    /\ texObs' = TexObserved("draw")
    /\ UNCHANGED <<mounted, canvasRotation, scene, showGrid, layers, faces, previewVars, valVars, refVars, otherVars>>

\* The stage's dragend or transformend event.
HandleChange ==
    /\ mounted
    /\ Triggered
    /\ texObs' = TexObserved("change")
    /\ UNCHANGED <<mounted, canvasRotation, scene, showGrid, layers, drawPending, faces,
                   previewVars, valVars, refVars, otherVars>>

\* Time passes while no timeout is due and no frame is waiting to be drawn.
Tick ==
    /\ mounted
    /\ timers # {}
    /\ ~drawPending
    /\ \A t \in timers : t.remaining > 0
    /\ timers' = {[t EXCEPT !.remaining = @ - TickMs] : t \in timers}
    /\ burst' = [burst EXCEPT !.since = Min(@ + TickMs, TEXTURE_UPDATE_DEBOUNCE_MS)]
    /\ texObs' = TexObserved("tick")
    /\ UNCHANGED <<mounted, canvasRotation, scene, showGrid, layers, drawPending, faces,
                   textureUpdateTimerRef, previewVars, valVars, refVars, otherVars>>

\* A timeout fires: its callback clears the ref and runs the updateFaceTextures
\* of the render that set it; the capture of one face may throw.
TimerFires ==
    /\ mounted
    /\ \E t \in timers, throwAt \in 0..MaxThrowAt :
        LET r == updateFaceTextures(t.rotation, scene, canvasRotation, showGrid,
                                    layers, throwAt)
            published == setFaceTextures(faces, r.updates)
        IN  /\ t.remaining <= 0
            /\ ~r.ran => throwAt = 0
            /\ \A key \in BoxFaceKey : published[key].version <= MaxVersion
            /\ timers' = timers \ {t}
            /\ textureUpdateTimerRef' = 0
            /\ layers' = r.layers
            /\ faces' = published
            /\ drawPending' = (drawPending \/ r.ran)
            /\ burst' = [burst EXCEPT !.runs = @ + 1, !.triggers = 0]
            /\ texObs' = [op |-> "timerFires", ran |-> r.ran, thrown |-> throwAt # 0,
                          named |-> DOMAIN r.updates, coalesced |-> burst.triggers]
    /\ UNCHANGED <<mounted, canvasRotation, scene, showGrid, previewVars, valVars, refVars, otherVars>>

\* A rasterization run of an unrotated canvas publishes its updates: the edit
\* of the scene, the debounce and the run, taken as one step.
Publishes ==
    /\ mounted
    /\ canvasRotation % FullTurn = 0
    /\ \E scn \in {{}} \cup {{n} : n \in SceneNodes}, throwAt \in 0..MaxThrowAt :
        LET r == updateFaceTextures(canvasRotation, scn, canvasRotation, showGrid,
                                    layers, throwAt)
            published == setFaceTextures(faces, r.updates)
        IN  /\ published # faces
            /\ \A key \in BoxFaceKey : published[key].version <= MaxVersion
            /\ scene' = scn
            /\ faces' = published
    /\ UNCHANGED <<mounted, canvasRotation, showGrid, layers, drawPending, timers,
                   textureUpdateTimerRef, burst, texObs, previewVars, valVars, refVars, otherVars>>

\* The dependencies the placement effect last ran with; none before the
\* first run of a mounted canvas.
NoDeps == [ran |-> FALSE]

\* A cleanup that leaves the earlier runs as they are.
PlacementCleanupMutantKeeps(running) == running

\* The cleanup of the placement effect: isCancelled = true in the closure of
\* the run it belongs to.
PlacementCleanup(running) == {[load EXCEPT !.isCancelled = TRUE] : load \in running}

\* The page unmounts: the canvas stage's teardown clears the timeout it holds
\* and resets the preview store; the 3D preview goes with it.
Teardown ==
    /\ mounted
    /\ mounted' = FALSE
    /\ timers' = {t \in timers : textureUpdateTimerRef = 0 \/ t.id # textureUpdateTimerRef}
    /\ faces' = resetFaceTextures
    /\ drawPending' = FALSE
    /\ texObs' = TexObserved("teardown")
    /\ dielineLoads' = {[load EXCEPT !.isMounted = FALSE] : load \in dielineLoads}
    /\ placementLoads' = PlacementCleanup(placementLoads)
    /\ imageLoads' = {[load EXCEPT !.onload = FALSE] : load \in imageLoads}
    /\ dieline' = [loaded |-> FALSE, x |-> 0, y |-> 0, width |-> 0, height |-> 0]
    /\ error' = ""
    /\ images' = {}
    /\ UNCHANGED <<resizeObs, canvasRotation, scene, showGrid, layers, textureUpdateTimerRef, burst,
                   previewVars, valVars, refVars, viewVars, pointerVars, dielineObs,
                   loadObs, pendingPlacement, placementObs, imageObs>>
    /\ placementDeps' = NoDeps

\* The load callback of the texture loader without the version check.
onLoadMutantNoCheck(versions, materials, load) ==
    [materials EXCEPT ![load.face] = [dataUrl |-> load.dataUrl, version |-> load.version]]

\* The load callback: a texture whose version is not the one the ref holds
\* for the face is disposed of; otherwise it becomes the material's map.
onLoad(versions, materials, load) ==
    IF versions[load.face] # load.version THEN materials
    ELSE [materials EXCEPT ![load.face] =
             [dataUrl |-> load.dataUrl, version |-> load.version]]

\* The effect without the version check: it handles every face on every run.
EffectFacesMutantAlways(versions, fs) == BoxFaceKey

\* The faces the effect handles: those whose version is not the one the ref
\* holds; the others are skipped.
EffectFaces(versions, fs) == {key \in BoxFaceKey : versions[key] # fs[key].version}

\* The 3D preview's effect on faces: for every face whose version is not the
\* one recorded, record it, then clear the material's map (no raster) or start
\* a load tagged with the version.
FaceTextureEffect ==
    /\ mounted
    /\ facesSeen # faces
    /\ LET changed == EffectFaces(faceVersionsRef, faces)
           cleared == {key \in changed : faces[key].dataUrl = Null}
           started == {[face |-> key, version |-> faces[key].version,
                        dataUrl |-> faces[key].dataUrl] : key \in changed \ cleared}
       IN  /\ Cardinality(loads \cup started) <= MaxLoads
           /\ faceVersionsRef' = [key \in BoxFaceKey |->
                                     IF key \in changed THEN faces[key].version
                                     ELSE faceVersionsRef[key]]
           /\ materialMap' = [key \in BoxFaceKey |->
                                 IF key \in cleared
                                 THEN [dataUrl |-> Null, version |-> faces[key].version]
                                 ELSE materialMap[key]]
           /\ loads' = loads \cup started
           /\ previewObs' = [op |-> "effect", touched |-> changed, stale |-> FALSE]
    /\ facesSeen' = faces
    /\ UNCHANGED <<loadErrors, stageVars, valVars, refVars, otherVars>>

\* A texture load completes, in any order.
LoadCompletes ==
    /\ \E load \in loads :
        /\ loads' = loads \ {load}
        /\ materialMap' = onLoad(faceVersionsRef, materialMap, load)
        /\ previewObs' = [op |-> "load", touched |-> {load.face},
                          stale |-> faceVersionsRef[load.face] # load.version]
    /\ UNCHANGED <<faceVersionsRef, facesSeen, loadErrors, stageVars, valVars, refVars,
                   otherVars>>

\* A texture load completes with an error: the error callback logs it, and
\* nothing else.
LoadFails ==
    /\ loadErrors < MaxLoadErrors
    /\ loadErrors' = loadErrors + 1
    /\ \E load \in loads :
        /\ loads' = loads \ {load}
        /\ previewObs' = [op |-> "error", touched |-> {load.face}, stale |-> FALSE]
    /\ UNCHANGED <<faceVersionsRef, materialMap, facesSeen, stageVars, valVars, refVars,
                   otherVars>>

(***************************************************************************)
(* The toolbar's rotate button and the z-order buttons over a document of  *)
(* up to MaxOrderIds nodes: the same reducers, with a history long enough  *)
(* for the nodes to be added and then reordered or rotated.                *)
(***************************************************************************)
OrderBecomes(name, t) ==
    /\ Len(t.past) <= MaxOrderHist
    /\ nodes' = t.nodes
    /\ selection' = t.selection
    /\ past' = t.past
    /\ future' = t.future
    /\ lastOp' = Observed(name, t)
    /\ UNCHANGED <<rotationSession, trail, gestureObs, refVars, texVars, otherVars>>

OrderHandleDrop ==
    /\ nextId <= MaxOrderIds
    /\ LET node == DroppedNode(createRandomId)
       IN  OrderBecomes("addNode", setSelection(addNode(State, node), <<node.id>>))
    /\ nextId' = nextId + 1

OrderHandleNodeSelect ==
    /\ \E sel \in {<<>>} \cup {<<nodes[i].id>> : i \in 1..Len(nodes)} :
          OrderBecomes("setSelection", setSelection(State, sel))
    /\ UNCHANGED nextId

OrderRotateSelectionClockwise ==
    /\ OrderBecomes("rotateSelectionClockwise", rotateSelectionClockwise(State))
    /\ UNCHANGED nextId

OrderBringSelectionToFront ==
    /\ OrderBecomes("bringSelectionToFront", bringSelectionToFront(State))
    /\ UNCHANGED nextId

OrderSendSelectionBackward ==
    /\ OrderBecomes("sendSelectionBackward", sendSelectionBackward(State))
    /\ UNCHANGED nextId

(***************************************************************************)
(* The rotate handle with several pointers.  PointerIds are the ids of the *)
(* pointers that press the handle and whose move, up and cancel events the *)
(* document delivers to the listeners the gesture registered.              *)
(***************************************************************************)
PointerIds == 1..MaxPointers

NoPointerObs == [op |-> "none", pointerId |-> 0, foreign |-> FALSE, seq |-> 0]

PointerObserved(op, pointerId) ==
    [op |-> op, pointerId |-> pointerId,
     foreign |-> rotationSession # NoSession /\ pointerId # sessionPointerId,
     seq |-> 1 - pointerObs.seq]

\* The early return of the move and up handlers that takes every event.
IgnoresPointerMutantNoIdCheck(session, sessionPointer, eventPointer) ==
    session = NoSession

\* if (!session || event.pointerId !== session.pointerId) return;
IgnoresPointer(session, sessionPointer, eventPointer) ==
    session = NoSession \/ eventPointer # sessionPointer

\* pointerdown on the rotate handle: a session that is under way is dropped
\* and a new one starts for the pressing pointer.
PointerDownOnRotateHandle ==
    /\ PrimarySelectedIndex(State) # 0
    /\ \E pointerId \in PointerIds :
        /\ LET node == nodes[PrimarySelectedIndex(State)]
               initialRotation == normalizeRotation(getNodeRotationValue(node))
           IN  rotationSession' = [nodeId |-> node.id, latestRotation |-> initialRotation]
        /\ sessionPointerId' = pointerId
        /\ pointerObs' = PointerObserved("pointerdown", pointerId)
    /\ trail' = <<>>
    /\ lastOp' = Observed("rotatePointerDown", State)
    /\ gestureObs' = NoObs
    /\ UNCHANGED <<nodes, selection, past, future, nextId, refVars, texVars, viewVars, dielineVars, asyncVars>>

\* pointermove on the document while the gesture's listeners are registered.
DocumentPointerMove ==
    /\ rotationSession # NoSession
    /\ \E pointerId \in PointerIds, value \in RotationInputs :
        /\ pointerObs' = PointerObserved("pointermove", pointerId)
        /\ IF IgnoresPointer(rotationSession, sessionPointerId, pointerId)
           THEN UNCHANGED <<nodes, selection, past, future, rotationSession, lastOp,
                            gestureObs, trail>>
           ELSE LET t == handleRotatePointerMove(State, rotationSession, value)
                IN  /\ rotationSession' = [rotationSession EXCEPT !.latestRotation = value]
                    /\ Becomes(t)
                    /\ lastOp' = Observed("rotatePointerMove", t)
                    /\ gestureObs' = ObsAfterLive(rotationSession.nodeId,
                                                  normalizeRotation(value))
                    /\ trail' = <<>>
    /\ UNCHANGED <<sessionPointerId, nextId, refVars, texVars, viewVars, dielineVars, asyncVars>>

\* pointerup or pointercancel on the document while the gesture's listeners
\* are registered (both go to handleRotatePointerUp).
DocumentPointerUp ==
    /\ rotationSession # NoSession
    /\ \E pointerId \in PointerIds, type \in {"pointerup", "pointercancel"} :
        /\ pointerObs' = PointerObserved(type, pointerId)
        /\ IF IgnoresPointer(rotationSession, sessionPointerId, pointerId)
           THEN UNCHANGED <<nodes, selection, past, future, rotationSession,
                            sessionPointerId, lastOp, gestureObs, trail>>
           ELSE LET t == handleRotatePointerUp(State, rotationSession)
                IN  /\ rotationSession' = NoSession
                    /\ sessionPointerId' = 0
                    /\ Becomes(t)
                    /\ trail' = TrailAfterEdit(t)
                    /\ lastOp' = Observed("rotatePointerUp", t)
                    /\ gestureObs' = ObsAfterCommit(rotationSession.nodeId,
                                         normalizeRotation(rotationSession.latestRotation))
    /\ UNCHANGED <<nextId, refVars, texVars, viewVars, dielineVars, asyncVars>>

(***************************************************************************)
(* Zoom and canvas rotation of the store.  A JavaScript number is a record *)
(* [kind, v]: a finite number holds its value in thousandths in v, and     *)
(* NaN, Infinity and -Infinity are numbers of their own.  The arithmetic   *)
(* follows IEEE 754 for the non-finite numbers and is exact for the finite *)
(* ones.                                                                   *)
(***************************************************************************)
Num(v) == [kind |-> "finite", v |-> v]

NaN == [kind |-> "NaN", v |-> 0]

Infinity == [kind |-> "Infinity", v |-> 0]

NegInfinity == [kind |-> "-Infinity", v |-> 0]

IsFinite(a) == a.kind = "finite"

\* a < b of JavaScript: false when either number is NaN.
JsLess(a, b) ==
    IF a.kind = "NaN" \/ b.kind = "NaN" THEN FALSE
    ELSE IF a.kind = "-Infinity" THEN b.kind # "-Infinity"
    ELSE IF a.kind = "Infinity" THEN FALSE
    ELSE IF b.kind = "-Infinity" THEN FALSE
    ELSE IF b.kind = "Infinity" THEN TRUE
    ELSE a.v < b.v

\* a === b of JavaScript: NaN equals nothing, itself included.
JsStrictEquals(a, b) == a.kind # "NaN" /\ b.kind # "NaN" /\ a = b

\* Math.max(a, b) and Math.min(a, b): NaN when either number is NaN.
MathMax(a, b) ==
    IF a.kind = "NaN" \/ b.kind = "NaN" THEN NaN ELSE IF JsLess(a, b) THEN b ELSE a

MathMin(a, b) ==
    IF a.kind = "NaN" \/ b.kind = "NaN" THEN NaN ELSE IF JsLess(a, b) THEN a ELSE b

\* a + b for a finite b.
JsAdd(a, b) == IF IsFinite(a) THEN Num(a.v + b.v) ELSE a

\* Math.round(value * 100) / 100: the nearest hundredth, a half rounded up;
\* NaN and the infinities are returned as they are.
RoundToHundredths(value) ==
    IF IsFinite(value) THEN Num(((value.v + 5) \div 10) * 10) ELSE value

\* MIN_ZOOM 0.5, MAX_ZOOM 2.5 and ZOOM_STEP 0.1, in thousandths.
MIN_ZOOM == 500
MAX_ZOOM == 2500
ZOOM_STEP == 100

normalizeZoom(value) ==
    LET rounded == RoundToHundredths(value)
    IN  MathMin(Num(MAX_ZOOM), MathMax(Num(MIN_ZOOM), rounded))

\* The zoom reducers: each returns the zoom of the next state and whether it
\* returned a new state object (changed) or the state itself.
setZoom(z, value) ==
    LET nextZoom == normalizeZoom(value)
    IN  IF JsStrictEquals(nextZoom, z) THEN [zoom |-> z, changed |-> FALSE]
        ELSE [zoom |-> nextZoom, changed |-> TRUE]

zoomIn(z) ==
    LET nextZoom == normalizeZoom(JsAdd(z, Num(ZOOM_STEP)))
    IN  IF JsStrictEquals(nextZoom, z) THEN [zoom |-> z, changed |-> FALSE]
        ELSE [zoom |-> nextZoom, changed |-> TRUE]

zoomOut(z) ==
    LET nextZoom == normalizeZoom(JsAdd(z, Num(0 - ZOOM_STEP)))
    IN  IF JsStrictEquals(nextZoom, z) THEN [zoom |-> z, changed |-> FALSE]
        ELSE [zoom |-> nextZoom, changed |-> TRUE]

resetZoom(z) == [zoom |-> Num(1000), changed |-> TRUE]

\* setRotation: set({ rotation }), the argument is stored as it is.
setRotation(rotation) == rotation

\* The arguments of setZoom: the non-finite numbers, values below, inside and
\* above the range, and values with a third decimal.
ZoomInputs ==
    {NaN, Infinity, NegInfinity} \cup
    {Num(v) : v \in {0 - 1000, 0, 499, 504, 505, 1000, 1234, 1235, 2496, 2500, 2501, 3000}}

\* The arguments of setRotation (degrees).
SetRotationInputs == {0 - QuarterTurn, 0, 45, FullTurn, FullTurn + QuarterTurn}

NoViewObs == [op |-> "none", changed |-> FALSE, arg |-> Num(0)]

\* The zoom controls and the zoom reducers called directly.
SetZoom ==
    /\ \E value \in ZoomInputs :
        LET r == setZoom(zoom, value)
        IN  /\ zoom' = r.zoom
            /\ viewObs' = [op |-> "setZoom", changed |-> r.changed, arg |-> value]
    /\ UNCHANGED <<valVars, refVars, texVars, pointerVars, dielineVars, asyncVars>>

ZoomIn ==
    /\ LET r == zoomIn(zoom)
       IN  /\ zoom' = r.zoom
           /\ viewObs' = [op |-> "zoomIn", changed |-> r.changed, arg |-> Num(0)]
    /\ UNCHANGED <<valVars, refVars, texVars, pointerVars, dielineVars, asyncVars>>

ZoomOut ==
    /\ LET r == zoomOut(zoom)
       IN  /\ zoom' = r.zoom
           /\ viewObs' = [op |-> "zoomOut", changed |-> r.changed, arg |-> Num(0)]
    /\ UNCHANGED <<valVars, refVars, texVars, pointerVars, dielineVars, asyncVars>>

ResetZoom ==
    /\ zoom' = resetZoom(zoom).zoom
    /\ viewObs' = [op |-> "resetZoom", changed |-> TRUE, arg |-> Num(0)]
    /\ UNCHANGED <<valVars, refVars, texVars, pointerVars, dielineVars, asyncVars>>

\* The rotation reducers of the store while no canvas stage is mounted (no
\* effect runs on the new rotation).
StoreRotateCanvasLeft ==
    /\ ~mounted
    /\ canvasRotation' = rotateCanvasLeft(canvasRotation)
    /\ viewObs' = [op |-> "rotateCanvasLeft", changed |-> canvasRotation' # canvasRotation,
                   arg |-> Num(0)]
    /\ UNCHANGED <<mounted, scene, showGrid, layers, drawPending, faces, timers,
                   textureUpdateTimerRef, burst, texObs, previewVars, zoom,
                   valVars, refVars, pointerVars, dielineVars, asyncVars>>

StoreRotateCanvasRight ==
    /\ ~mounted
    /\ canvasRotation' = rotateCanvasRight(canvasRotation)
    /\ viewObs' = [op |-> "rotateCanvasRight", changed |-> canvasRotation' # canvasRotation,
                   arg |-> Num(0)]
    /\ UNCHANGED <<mounted, scene, showGrid, layers, drawPending, faces, timers,
                   textureUpdateTimerRef, burst, texObs, previewVars, zoom,
                   valVars, refVars, pointerVars, dielineVars, asyncVars>>

SetRotation ==
    /\ ~mounted
    /\ \E rotation \in SetRotationInputs :
        /\ canvasRotation' = setRotation(rotation)
        /\ viewObs' = [op |-> "setRotation", changed |-> TRUE, arg |-> Num(rotation * 1000)]
    /\ UNCHANGED <<mounted, scene, showGrid, layers, drawPending, faces, timers,
                   textureUpdateTimerRef, burst, texObs, previewVars, zoom,
                   valVars, refVars, pointerVars, dielineVars, asyncVars>>

(***************************************************************************)
(* The dieline frame and the containment test of a shape's bounds.         *)
(* Coordinates and sizes are finite numbers, in pixels.                    *)
(***************************************************************************)
NoDieline == [loaded |-> FALSE, x |-> 0, y |-> 0, width |-> 0, height |-> 0]

\* The frames loadDielineDocument builds from the viewBox of a dieline: the
\* origin of the viewBox and a width and height other than 0.
DielineFrames ==
    {[loaded |-> TRUE, x |-> x, y |-> y, width |-> w, height |-> h] :
        x \in {0 - 10, 0}, y \in {0, 5}, w \in {MaxFrame - 10, MaxFrame}, h \in {MaxFrame}}

\* The bounds of a shape: getClientRect relative to the layer.
RectBoundsCases ==
    {[x |-> x, y |-> y, width |-> w, height |-> h] :
        x \in {0 - 20, 0 - 5, 5, MaxFrame - 15, MaxFrame},
        y \in {0 - 5, 5, MaxFrame - 5},
        w \in {0, 10, MaxFrame + 20}, h \in {0, 10}}

\* isInsideDieline that asks for an overlap with the frame.
isInsideDielineMutantOverlap(frame, nodeBounds) ==
    IF nodeBounds.width <= 0 \/ nodeBounds.height <= 0 THEN TRUE
    ELSE /\ nodeBounds.x + nodeBounds.width >= frame.x
         /\ nodeBounds.y + nodeBounds.height >= frame.y
         /\ nodeBounds.x <= frame.x + frame.width
         /\ nodeBounds.y <= frame.y + frame.height

isInsideDieline(frame, nodeBounds) ==
    IF nodeBounds.width <= 0 \/ nodeBounds.height <= 0 THEN TRUE
    ELSE LET dielineLeft == frame.x
             dielineTop == frame.y
             dielineRight == frame.x + frame.width
             dielineBottom == frame.y + frame.height
             nodeLeft == nodeBounds.x
             nodeTop == nodeBounds.y
             nodeRight == nodeBounds.x + nodeBounds.width
             nodeBottom == nodeBounds.y + nodeBounds.height
         IN  /\ nodeLeft >= dielineLeft
             /\ nodeTop >= dielineTop
             /\ nodeRight <= dielineRight
             /\ nodeBottom <= dielineBottom

NoDielineObs == [tested |-> FALSE, frame |-> NoDieline,
                 bounds |-> [x |-> 0, y |-> 0, width |-> 0, height |-> 0],
                 inside |-> TRUE]

\* setDieline(document) once the dieline of the page is loaded.
SetDieline ==
    /\ \E document \in DielineFrames : dieline' = document
    /\ UNCHANGED <<dielineObs, valVars, refVars, texVars, viewVars, pointerVars, asyncVars>>

\* updateShapeOpacityForDieline for a shape with the given bounds: without a
\* dieline the shape keeps its base opacity and no test is made.
UpdateShapeOpacityForDieline ==
    /\ \E bounds \in RectBoundsCases :
          dielineObs' = IF ~dieline.loaded THEN NoDielineObs
                        ELSE [tested |-> TRUE, frame |-> dieline, bounds |-> bounds,
                              inside |-> isInsideDieline(dieline, bounds)]
    /\ UNCHANGED <<dieline, valVars, refVars, texVars, viewVars, pointerVars, asyncVars>>

(***************************************************************************)
(* Text nodes.  The numeric layout fields of a text node (fontSize,        *)
(* letterSpacing, radius, angle) are JavaScript numbers, finite values in  *)
(* thousandths; x and y are finite coordinates in pixels.  The browser's   *)
(* measurement of a text is a function of the text and the font: the       *)
(* width of a straight text is its glyph count times the font size times a *)
(* ratio of the font face, and the bounding box of a curved text with      *)
(* glyphs is the symbolic value of the arguments it is computed from.      *)
(***************************************************************************)
\* n as a number in thousandths.
Px(n) == Num(n * 1000)

FALLBACK_LETTER_WIDTH_RATIO == 600

\* value || fallback of JavaScript looks at this: NaN and 0 are falsy.
Truthy(a) == a.kind # "NaN" /\ ~(a.kind = "finite" /\ a.v = 0)

\* metrics.width of context.measureText: glyphs x fontSize x the ratio of the
\* font face (the fallback ratio for Inter 400).
LetterWidthRatio(fontFamily, fontWeight) ==
    FALLBACK_LETTER_WIDTH_RATIO
    + (IF fontFamily = "Inter" THEN 0 ELSE 50)
    + (IF fontWeight = "400" THEN 0 ELSE 100)

measureStraightText(text, fontFamily, fontSize, fontWeight, letterSpacing) ==
    LET baseWidth == Max(Len(text), 1)
                     * ((fontSize.v * LetterWidthRatio(fontFamily, fontWeight)) \div 1000)
        spacing == Max(Len(text) - 1, 0) * letterSpacing.v
    IN  [width |-> Num(baseWidth + spacing), height |-> fontSize]

computeCurvedTextLayout(text, fontFamily, fontSize, fontWeight, letterSpacing, radius, angle) ==
    IF Len(text) = 0
    THEN [width |-> MathMax(fontSize, Px(1)), height |-> MathMax(fontSize, Px(1))]
    ELSE LET box == [text |-> text, fontFamily |-> fontFamily, fontSize |-> fontSize,
                     fontWeight |-> fontWeight, letterSpacing |-> letterSpacing,
                     radius |-> radius, angle |-> angle]
         IN  [width |-> [kind |-> "curvedWidth", box |-> box],
              height |-> [kind |-> "curvedHeight", box |-> box]]

\* The layout withUpdatedTextMetrics computes for text data.
LayoutOf(d) ==
    IF d.isCurved
    THEN computeCurvedTextLayout(d.text, d.fontFamily, d.fontSize, d.fontWeight,
                                 d.letterSpacing, d.radius, d.angle)
    ELSE measureStraightText(d.text, d.fontFamily, d.fontSize, d.fontWeight,
                             d.letterSpacing)

\* The merged data with the numeric fields repaired.
RepairedData(data, updates) ==
    LET merged == MergeData(data, updates)
        fontSize == IF ~IsFinite(merged.fontSize) \/ merged.fontSize.v <= 0
                    THEN MathMax(Px(12), data.fontSize)
                    ELSE merged.fontSize
        letterSpacing == IF ~IsFinite(merged.letterSpacing) THEN data.letterSpacing
                         ELSE merged.letterSpacing
        radius == IF ~IsFinite(merged.radius) \/ merged.radius = Num(0)
                  THEN (IF Truthy(data.radius) THEN data.radius ELSE Px(150))
                  ELSE merged.radius
        angle == IF ~IsFinite(merged.angle) THEN data.angle ELSE merged.angle
    IN  [merged EXCEPT !.fontSize = fontSize, !.letterSpacing = letterSpacing,
                       !.radius = radius, !.angle = angle]

\* layout.width || Math.max(next.fontSize, 1), and the same for the height.
WithMetrics(next) ==
    LET layout == LayoutOf(next)
    IN  [next EXCEPT
            !.width = IF Truthy(layout.width) THEN layout.width
                      ELSE MathMax(next.fontSize, Px(1)),
            !.height = IF Truthy(layout.height) THEN layout.height
                       ELSE MathMax(next.fontSize, Px(1))]

\* withUpdatedTextMetrics that merges and repairs but keeps the cached size.
withUpdatedTextMetricsMutantKeepSize(data, updates) ==
    IF data.width = Num(0) THEN WithMetrics(RepairedData(data, updates))
    ELSE RepairedData(data, updates)

\* withUpdatedTextMetrics that takes the numeric updates as they come.
withUpdatedTextMetricsMutantNoRepair(data, updates) ==
    WithMetrics(MergeData(data, updates))

withUpdatedTextMetrics(data, updates) == WithMetrics(RepairedData(data, updates))

\* The presets of the text panel (body copy, curved accent) as the baseData
\* handleAddPreset builds from them.
TEXT_PRESETS ==
    {[text |-> "Start typing your message", fontFamily |-> "Inter",
      fontSize |-> Px(18), fontWeight |-> "400", letterSpacing |-> Num(0),
      isCurved |-> FALSE, radius |-> Px(180), angle |-> Num(0),
      x |-> DEFAULT_TEXT_POSITION, y |-> DEFAULT_TEXT_POSITION, rotation |-> 0,
      width |-> Num(0), height |-> Num(0), opacity |-> 1],
     [text |-> "Curved text", fontFamily |-> "Playfair Display",
      fontSize |-> Px(24), fontWeight |-> "700",
      letterSpacing |-> Px(4),
      isCurved |-> TRUE, radius |-> Px(180), angle |-> Px(180),
      x |-> DEFAULT_TEXT_POSITION, y |-> DEFAULT_TEXT_POSITION, rotation |-> 0,
      width |-> Num(0), height |-> Num(0), opacity |-> 1]}

isTextNode(node) == node.type = "text"

\* The updates the inputs of the text panel pass to handlePropertyChange
\* for the selected text node: font family, font size (at least 4), font
\* weight, letter spacing (any finite number), the curve switch, radius (at
\* least 10) and angle.
TextPanelUpdates(data) ==
    {[fontFamily |-> "Montserrat"],
     [fontSize |-> MathMax(Px(4), Px(2))],
     [fontWeight |-> "600"],
     [letterSpacing |-> Num(0 - 11250)],
     [letterSpacing |-> Px(2)],
     [isCurved |-> ~data.isCurved,
      radius |-> IF ~data.isCurved
                 THEN (IF Truthy(data.radius) THEN data.radius ELSE Px(180))
                 ELSE data.radius,
      angle |-> IF ~data.isCurved
                THEN (IF Truthy(data.angle) THEN data.angle ELSE Px(180))
                ELSE data.angle],
     [radius |-> MathMax(Px(10), Num(0))],
     [angle |-> Px(QuarterTurn)]}

\* The updates the text node on the canvas passes to handleTextNodeChange:
\* drag end, transform end (the node scaled by 2) and the commit of the
\* inline editor.
CanvasTextUpdates(data, gridSize) ==
    LET at(value) == IF gridSize # 0 THEN snapToGrid(value, gridSize) ELSE value
    IN  {[x |-> at(0 - 12), y |-> at(100)]}
        \cup
        {[x |-> at(36), y |-> at(36), rotation |-> QuarterTurn,
          fontSize |-> MathMax(Px(4), Num(data.fontSize.v * 2)),
          radius |-> MathMax(Px(10), Num(data.radius.v * 2)),
          letterSpacing |-> Num(data.letterSpacing.v * 2)]}
        \cup
        {[text |-> value] : value \in {"", "Hi"} \ {data.text}}

\* The store becomes t after an edit of a text node.
TextBecomes(name, t) ==
    /\ Len(t.past) <= MaxTextHist
    /\ nodes' = t.nodes
    /\ selection' = t.selection
    /\ past' = t.past
    /\ future' = t.future
    /\ lastOp' = Observed(name, t)
    /\ UNCHANGED <<rotationSession, trail, gestureObs, refVars, texVars, otherVars>>

\* handleAddPreset of the text panel.
HandleAddPreset ==
    /\ nextId <= MaxTextIds
    /\ \E baseData \in TEXT_PRESETS :
        LET node == [id |-> createRandomId, type |-> "text",
                     data |-> withUpdatedTextMetrics(baseData, << >>)]
        IN  TextBecomes("addPreset", setSelection(addNode(State, node), <<node.id>>))
    /\ nextId' = nextId + 1

\* handlePropertyChange of the text panel, for the text node whose id is the
\* first of the selection.
HandlePropertyChange ==
    /\ selection # <<>>
    /\ \E i \in 1..Len(nodes) :
        /\ nodes[i].id = selection[1]
        /\ isTextNode(nodes[i])
        /\ \E updates \in TextPanelUpdates(nodes[i].data) :
              LET updatedNodes ==
                      [j \in 1..Len(nodes) |->
                          IF ~isTextNode(nodes[j]) \/ nodes[j].id # nodes[i].id THEN nodes[j]
                          ELSE [nodes[j] EXCEPT
                                   !.data = withUpdatedTextMetrics(nodes[j].data, updates)]]
              IN  TextBecomes("propertyChange", setNodes(State, updatedNodes))
    /\ UNCHANGED nextId

\* handleTextNodeChange of the canvas: drag end, transform end, inline commit.
HandleTextNodeChange ==
    /\ mounted
    /\ \E i \in 1..Len(nodes) :
        /\ isTextNode(nodes[i])
        /\ LET gridSize == IF showGrid THEN GRID_SIZE ELSE 0
           IN  \E updates \in CanvasTextUpdates(nodes[i].data, gridSize) :
                  LET snappedUpdates == snapUpdatesToGrid(updates, gridSize).value
                      nextNodes ==
                          [j \in 1..Len(nodes) |->
                              IF ~isTextNode(nodes[j]) \/ nodes[j].id # nodes[i].id
                              THEN nodes[j]
                              ELSE [nodes[j] EXCEPT !.data =
                                       withUpdatedTextMetrics(nodes[j].data, snappedUpdates)]]
                  IN  TextBecomes("textNodeChange", setNodes(State, nextNodes))
    /\ UNCHANGED nextId

\* The undo and redo buttons over the text document.
TextUndo ==
    /\ canUndo
    /\ TextBecomes("undo", undo(State))
    /\ UNCHANGED nextId

TextRedo ==
    /\ canRedo
    /\ TextBecomes("redo", redo(State))
    /\ UNCHANGED nextId

(***************************************************************************)
(* Loading the dieline.  A description is what the parser gives for the    *)
(* SVG text: the numbers Number.parseFloat reads from the viewBox or from  *)
(* the width and height attributes (finite, in pixels, or NaN) and the     *)
(* elements below the root in document order, each with its tag, its id    *)
(* ("" when it has none), its parent (0: the root) and whether it has      *)
(* path data.                                                              *)
(***************************************************************************)
\* id.toLowerCase().includes(word) for the ids of the descriptions.
LowerCaseIncludes(id, word) ==
    CASE id = "cut-lines" -> word = "cut"
      [] id = "Cut" -> word = "cut"
      [] id = "safe-area" -> word = "safe"
      [] id = "BLEED" -> word = "bleed"
      [] id = "safe-cut" -> word \in {"safe", "cut"}
      [] OTHER -> FALSE

groupIdToType(id) ==
    IF id = "" THEN "unknown"
    ELSE IF LowerCaseIncludes(id, "cut") THEN "cut"
    ELSE IF LowerCaseIncludes(id, "safe") THEN "safe"
    ELSE IF LowerCaseIncludes(id, "bleed") THEN "bleed"
    ELSE "unknown"

\* The ancestors of element i, the nearest first.
RECURSIVE AncestorsOf(_, _)
AncestorsOf(elements, i) ==
    IF elements[i].parent = 0 THEN <<>>
    ELSE <<elements[i].parent>> \o AncestorsOf(elements, elements[i].parent)

\* The members of a set of indices in document order.
RECURSIVE InDocumentOrder(_)
InDocumentOrder(indices) ==
    IF indices = {} THEN <<>>
    ELSE LET first == CHOOSE i \in indices : \A j \in indices : i <= j
         IN  <<first>> \o InDocumentOrder(indices \ {first})

\* querySelectorAll("g") on the root, and querySelectorAll("path") on a group.
GroupElements(elements) ==
    InDocumentOrder({i \in 1..Len(elements) : elements[i].tag = "g"})

PathsBelow(elements, group) ==
    InDocumentOrder({i \in 1..Len(elements) :
                        /\ elements[i].tag = "path"
                        /\ group \in Range(AncestorsOf(elements, i))})

\* querySelectorAll(":scope > path") on the root.
PathsOfRoot(elements) ==
    InDocumentOrder({i \in 1..Len(elements) :
                        elements[i].tag = "path" /\ elements[i].parent = 0})

\* pushPath: an element without path data is skipped.
pushPath(elements, paths, i, type) ==
    IF ~elements[i].d THEN paths
    ELSE Append(paths, [element |-> i, type |-> type,
                        id |-> IF elements[i].id # "" THEN [text |-> elements[i].id, n |-> 0]
                               ELSE [text |-> type, n |-> Len(paths)]])

RECURSIVE PushEach(_, _, _, _)
PushEach(elements, paths, indices, type) ==
    IF indices = <<>> THEN paths
    ELSE PushEach(elements, pushPath(elements, paths, Head(indices), type),
                  Tail(indices), type)

RECURSIVE PushGroups(_, _, _)
PushGroups(elements, paths, groups) ==
    IF groups = <<>> THEN paths
    ELSE PushGroups(elements,
                    PushEach(elements, paths, PathsBelow(elements, Head(groups)),
                             groupIdToType(elements[Head(groups)].id)),
                    Tail(groups))

RECURSIVE PushRootPaths(_, _, _)
PushRootPaths(elements, paths, indices) ==
    IF indices = <<>> THEN paths
    ELSE PushRootPaths(elements,
                       pushPath(elements, paths, Head(indices),
                                groupIdToType(elements[Head(indices)].id)),
                       Tail(indices))

\* A number read by Number.parseFloat, or 0 where the code puts 0.
FiniteOr0(value) == IF IsFinite(value) THEN value ELSE Num(0)

\* loadDielineDocument after the response was read: the document, or the
\* error thrown.
loadDielineDocument(description) ==
    LET x == IF description.viewBox THEN FiniteOr0(description.vx) ELSE Num(0)
        y == IF description.viewBox THEN FiniteOr0(description.vy) ELSE Num(0)
        width == IF description.viewBox THEN FiniteOr0(description.vw)
                 ELSE IF description.rawWidth.present THEN description.rawWidth.value
                 ELSE Num(0)
        height == IF description.viewBox THEN FiniteOr0(description.vh)
                  ELSE IF description.rawHeight.present THEN description.rawHeight.value
                  ELSE Num(0)
        elements == description.elements
        paths == PushRootPaths(elements,
                               PushGroups(elements, <<>>, GroupElements(elements)),
                               PathsOfRoot(elements))
    IN  IF ~Truthy(width) \/ ~Truthy(height)
        THEN [ok |-> FALSE, error |-> "Invalid SVG viewBox", width |-> width,
              height |-> height, x |-> x, y |-> y, paths |-> <<>>]
        ELSE IF Len(paths) = 0
        THEN [ok |-> FALSE, error |-> "No path data found", width |-> width,
              height |-> height, x |-> x, y |-> y, paths |-> <<>>]
        ELSE [ok |-> TRUE, error |-> "", width |-> width, height |-> height,
              x |-> x, y |-> y, paths |-> paths]

\* The sizes of the descriptions: a viewBox, or width and height attributes.
NoAttribute == [present |-> FALSE, value |-> Num(0)]

Attribute(value) == [present |-> TRUE, value |-> value]

DescriptionSizes ==
    {[viewBox |-> TRUE, vx |-> Num(0 - 10), vy |-> Num(0), vw |-> size[1], vh |-> size[2],
      rawWidth |-> NoAttribute, rawHeight |-> NoAttribute] :
        size \in {<<Num(100), Num(80)>>, <<Num(0), Num(80)>>, <<Num(0 - 100), Num(80)>>,
                  <<NaN, Num(80)>>, <<Num(100), NaN>>}}
    \cup
    {[viewBox |-> FALSE, vx |-> Num(0), vy |-> Num(0), vw |-> Num(0), vh |-> Num(0),
      rawWidth |-> size[1], rawHeight |-> size[2]] :
        size \in {<<Attribute(Num(100)), Attribute(Num(80))>>,
                  <<Attribute(NaN), Attribute(Num(80))>>,
                  <<NoAttribute, Attribute(Num(80))>>,
                  <<Attribute(Num(100)), Attribute(Num(0 - 5))>>}}

Element(tag, id, parent, d) == [tag |-> tag, id |-> id, parent |-> parent, d |-> d]

\* A tree that loads: a group of cut lines and a safe area below the root.
GoodElements == <<Element("g", "cut-lines", 0, FALSE), Element("path", "", 1, TRUE),
                  Element("path", "safe-area", 0, TRUE)>>

\* The element trees of the descriptions.
DescriptionElements ==
    {GoodElements,
     <<Element("g", "Cut", 0, FALSE), Element("g", "safe-area", 1, FALSE),
       Element("path", "", 2, TRUE)>>,
     <<Element("g", "safe-cut", 0, FALSE), Element("path", "BLEED", 1, TRUE)>>,
     <<Element("g", "", 0, FALSE), Element("path", "BLEED", 1, TRUE),
       Element("path", "fold", 0, TRUE)>>,
     <<Element("a", "", 0, FALSE), Element("path", "Cut", 1, TRUE)>>,
     <<Element("path", "Cut", 0, FALSE)>>,
     <<>>}

\* A size that loads.
GoodSize == [viewBox |-> TRUE, vx |-> Num(0 - 10), vy |-> Num(0), vw |-> Num(100),
             vh |-> Num(80), rawWidth |-> NoAttribute, rawHeight |-> NoAttribute]

Description(size, elements) ==
    [viewBox |-> size.viewBox, vx |-> size.vx, vy |-> size.vy, vw |-> size.vw,
     vh |-> size.vh, rawWidth |-> size.rawWidth, rawHeight |-> size.rawHeight,
     elements |-> elements]

\* The descriptions the server answers with: every size with the tree that
\* loads, every tree with the size that loads.
Descriptions ==
    {Description(size, GoodElements) : size \in DescriptionSizes}
    \cup {Description(GoodSize, elements) : elements \in DescriptionElements}

\* pendingPlacement: null of the document store.
NoPlacement == [type |-> "none", assetId |-> 0, n |-> 0]

\* The assets of the store's library, and the ids a placement can name: an
\* image and a pdf of the library, and one id of each kind the library does
\* not hold.
ImageAssets == {"image-1"}

PdfAssets == {"pdf-1"}

Placements ==
    {[type |-> "image", assetId |-> id] : id \in {"image-1", "image-gone"}}
    \cup {[type |-> "pdf", assetId |-> id, width |-> 60, height |-> 40]
             : id \in {"pdf-1", "pdf-gone"}}

DEFAULT_IMAGE_PLACEHOLDER_WIDTH == 320

DEFAULT_IMAGE_PLACEHOLDER_HEIGHT == 240

MIN_PDF_DIMENSION == 120

\* What the browser reports when the image of a placement settles: onload
\* with the natural size (0 for an image without intrinsic size), or onerror.
ImageOutcomes ==
    {[event |-> "load", width |-> 64, height |-> 48],
     [event |-> "load", width |-> 0, height |-> 0],
     [event |-> "error", width |-> 0, height |-> 0]}

PlacementDeps ==
    [ran |-> TRUE, pendingPlacement |-> pendingPlacement, dieline |-> dieline,
     gridSize |-> IF showGrid THEN GRID_SIZE ELSE 0]

NoPlacementObs ==
    [queued |-> 0, added |-> [k \in 1..MaxPlacements |-> 0], step |-> "none",
     n |-> 0, id |-> 0]

\* The node finalizePlacement builds for an image.
PlacedImageNode(newId, assetId, width, height) ==
    [id |-> newId, type |-> "image",
     data |-> [assetId |-> assetId,
               width |-> IF width # 0 THEN width ELSE DEFAULT_IMAGE_PLACEHOLDER_WIDTH,
               height |-> IF height # 0 THEN height ELSE DEFAULT_IMAGE_PLACEHOLDER_HEIGHT,
               rotation |-> 0, opacity |-> 1, lockAspectRatio |-> FALSE]]

\* The node the effect builds for a pdf page: the page is scaled up until
\* both sides are at least MIN_PDF_DIMENSION.
PlacedPdfNode(newId, placement) ==
    LET shorter == Min(Max(placement.width, 1), Max(placement.height, 1))
        Scaled(natural) ==
            IF shorter < MIN_PDF_DIMENSION
            THEN (natural * MIN_PDF_DIMENSION) \div shorter
            ELSE natural
    IN  [id |-> newId, type |-> "pdf",
         data |-> [assetId |-> placement.assetId,
                   width |-> Max(Scaled(placement.width), MIN_PDF_DIMENSION),
                   height |-> Max(Scaled(placement.height), MIN_PDF_DIMENSION),
                   rotation |-> 0, opacity |-> 1, lockAspectRatio |-> FALSE]]

\* addNode(node); setSelection([node.id]); consumePendingPlacement().
PlaceNode(s, node) ==
    [state |-> setSelection(addNode(s, node), <<node.id>>),
     pendingPlacement |-> NoPlacement, added |-> TRUE]

\* finalizePlacement that does not look at isCancelled.
finalizePlacementMutantNoCancelCheck(s, pending, load, newId, width, height) ==
    PlaceNode(s, PlacedImageNode(newId, load.assetId, width, height))

\* finalizePlacement of one run of the effect: nothing once the run is
\* cancelled.
finalizePlacement(s, pending, load, newId, width, height) ==
    IF load.isCancelled
    THEN [state |-> s, pendingPlacement |-> pending, added |-> FALSE]
    ELSE PlaceNode(s, PlacedImageNode(newId, load.assetId, width, height))

\* The store and the ghost record after a step of the placement effect.
PlacementBecomes(name, r, n, newId) ==
    /\ nodes' = r.state.nodes
    /\ selection' = r.state.selection
    /\ past' = r.state.past
    /\ future' = r.state.future
    /\ pendingPlacement' = r.pendingPlacement
    /\ nextId' = IF r.added THEN nextId + 1 ELSE nextId
    /\ lastOp' = IF r.added THEN Observed("addNode", r.state) ELSE lastOp
    /\ placementObs' =
          [placementObs EXCEPT
              !.added = IF r.added THEN [@ EXCEPT ![n] = @ + 1] ELSE @,
              !.step = name, !.n = n, !.id = IF r.added THEN newId ELSE 0]

\* A name for the closure of a new run of the placement effect.
NewRun == CHOOSE k \in 1..(MaxPending + 1) : \A load \in placementLoads : load.run # k

\* queueAssetPlacement of the document store, called by the image panel and
\* the pdf panel.
QueueAssetPlacement ==
    /\ placementObs.queued < MaxPlacements
    /\ \E placement \in Placements :
          pendingPlacement' =
             IF placement.type = "pdf"
             THEN [type |-> "pdf", assetId |-> placement.assetId,
                   width |-> placement.width, height |-> placement.height,
                   n |-> placementObs.queued + 1]
             ELSE [type |-> "image", assetId |-> placement.assetId,
                   n |-> placementObs.queued + 1]
    /\ placementObs' = [placementObs EXCEPT !.queued = @ + 1, !.step = "queue",
                                            !.n = placementObs.queued + 1, !.id = 0]
    /\ UNCHANGED <<resizeObs, valVars, refVars, texVars, viewVars, pointerVars, dielineVars,
                   dielineLoads, error, loadObs, placementLoads, placementDeps,
                   imageLoads, images, imageObs>>

\* The placement effect runs again after a render in which one of its
\* dependencies changed: the cleanup of the run before, then the new run.
PlacementEffect ==
    /\ mounted
    /\ placementDeps # PlacementDeps
    /\ placementDeps' = PlacementDeps
    /\ LET cancelled == PlacementCleanup(placementLoads)
           pending == pendingPlacement
           same == [state |-> State, pendingPlacement |-> pending, added |-> FALSE]
           consumed == [same EXCEPT !.pendingPlacement = NoPlacement]
       IN  IF pending = NoPlacement \/ ~dieline.loaded
           THEN /\ placementLoads' = cancelled
                /\ PlacementBecomes("idle", same, pending.n, 0)
           ELSE IF pending.type = "image"
           THEN IF pending.assetId \notin ImageAssets
                THEN /\ placementLoads' = cancelled
                     /\ PlacementBecomes("unknown", consumed, pending.n, 0)
                ELSE /\ Cardinality(placementLoads) < MaxPending
                     /\ placementLoads' =
                            cancelled \cup {[run |-> NewRun, n |-> pending.n,
                                             assetId |-> pending.assetId,
                                             isCancelled |-> FALSE]}
                     /\ PlacementBecomes("load", same, pending.n, 0)
           ELSE IF pending.assetId \notin PdfAssets
                THEN /\ placementLoads' = cancelled
                     /\ PlacementBecomes("unknown", consumed, pending.n, 0)
                ELSE /\ nextId <= MaxPlaceIds
                     /\ placementLoads' = cancelled
                     /\ PlacementBecomes("pdf",
                           PlaceNode(State, PlacedPdfNode(createRandomId, pending)),
                           pending.n, createRandomId)
    /\ UNCHANGED <<resizeObs, rotationSession, trail, gestureObs, refVars, texVars, viewVars,
                   pointerVars, dielineVars, dielineLoads, error, loadObs,
                   imageLoads, images, imageObs>>

\* image.onload or image.onerror of a run of the placement effect.
PlacementLoadSettles ==
    /\ \E load \in placementLoads, outcome \in ImageOutcomes :
          /\ load.isCancelled \/ nextId <= MaxPlaceIds
          /\ placementLoads' = placementLoads \ {load}
          /\ LET width == IF outcome.event = "load" THEN outcome.width
                          ELSE DEFAULT_IMAGE_PLACEHOLDER_WIDTH
                 height == IF outcome.event = "load" THEN outcome.height
                           ELSE DEFAULT_IMAGE_PLACEHOLDER_HEIGHT
             IN  PlacementBecomes("settle",
                    finalizePlacement(State, pendingPlacement, load, createRandomId,
                                      width, height),
                    load.n, createRandomId)
    /\ UNCHANGED <<resizeObs, rotationSession, trail, gestureObs, refVars, texVars, viewVars,
                   pointerVars, dielineVars, dielineLoads, error, loadObs, placementDeps,
                   imageLoads, images, imageObs>>

\* The nodes the stage draws through CanvasImage or CanvasPdf, both of which
\* load their picture with useImage.
UsesImage(node) == node.type \in {"image", "pdf"}

HasInstance(nodeId) == \E instance \in images : instance.node = nodeId

\* The node handleDrop builds for an image dragged from the panel: it has no
\* width and no height yet.
DroppedImageNode(newId, assetId) ==
    [id |-> newId, type |-> "image",
     data |-> [assetId |-> assetId, rotation |-> 0, opacity |-> 1,
               lockAspectRatio |-> FALSE]]

\* storedWidth == null || storedHeight == null of CanvasImage.
LacksSize(node) == ~({"width", "height"} \subseteq DOMAIN node.data)

\* nodes.map(...) of handleImageNodeChange: the image node with the id gets
\* the (snapped) updates merged into its data.
MapImageNodeChange(ns, nodeId, updates, gridSize) ==
    LET snappedUpdates == snapUpdatesToGrid(updates, gridSize).value
        Merged(data) ==
            [k \in DOMAIN data \cup DOMAIN snappedUpdates |->
                IF k \in DOMAIN snappedUpdates THEN snappedUpdates[k] ELSE data[k]]
    IN  [i \in 1..Len(ns) |->
            IF ns[i].type # "image" \/ ns[i].id # nodeId THEN ns[i]
            ELSE [ns[i] EXCEPT !.data = Merged(ns[i].data)]]

\* handleImageNodeChange with the list of nodes its render captured.
handleImageNodeChange(s, captured, nodeId, updates, gridSize) ==
    setNodes(s, MapImageNodeChange(captured, nodeId, updates, gridSize))

\* The store becomes t after a step of the image nodes.
ImageBecomes(name, t) ==
    /\ Len(t.past) <= MaxImageHist
    /\ nodes' = t.nodes
    /\ selection' = t.selection
    /\ past' = t.past
    /\ future' = t.future
    /\ lastOp' = Observed(name, t)

\* handleDrop of the stage for an image of the library.
HandleDropImage ==
    /\ mounted
    /\ nextId <= MaxImageIds
    /\ \E assetId \in ImageAssets :
          LET node == DroppedImageNode(createRandomId, assetId)
          IN  ImageBecomes("addNode", setSelection(addNode(State, node), <<node.id>>))
    /\ nextId' = nextId + 1
    /\ UNCHANGED <<rotationSession, trail, gestureObs, refVars, texVars, otherVars>>

\* A CanvasImage or CanvasPdf mounts for a node of the document and its
\* useImage effect starts the load: img.onload = () => setImage(img).
UseImage ==
    /\ mounted
    /\ \E i \in 1..Len(nodes) :
          /\ UsesImage(nodes[i])
          /\ ~HasInstance(nodes[i].id)
          /\ Cardinality(imageLoads) < MaxImageLoads
          /\ images' = images \cup {[node |-> nodes[i].id, image |-> FALSE]}
          /\ imageLoads' = imageLoads \cup {[node |-> nodes[i].id, onload |-> TRUE]}
    /\ UNCHANGED <<resizeObs, valVars, refVars, texVars, viewVars, pointerVars, dielineVars,
                   dielineLoads, error, loadObs, pendingPlacement, placementLoads,
                   placementDeps, placementObs, imageObs>>

\* The component of a node that left the document unmounts: the cleanup of
\* useImage sets img.onload = null.
CanvasImageUnmounts ==
    /\ \E instance \in images :
          /\ \A i \in 1..Len(nodes) : nodes[i].id # instance.node
          /\ images' = images \ {instance}
          /\ imageLoads' = {IF load.node = instance.node
                            THEN [load EXCEPT !.onload = FALSE] ELSE load
                               : load \in imageLoads}
    /\ UNCHANGED <<resizeObs, valVars, refVars, texVars, viewVars, pointerVars, dielineVars,
                   dielineLoads, error, loadObs, pendingPlacement, placementLoads,
                   placementDeps, placementObs, imageObs>>

\* setImage(img) without the handler having been taken off.
onloadMutantAlways(instances, load) ==
    {IF instance.node = load.node THEN [instance EXCEPT !.image = TRUE] ELSE instance
        : instance \in instances} \cup {[node |-> load.node, image |-> TRUE]}

\* The load event of an image of useImage: the handler, when it is still
\* there, sets the component's image state.
onload(instances, load) ==
    IF ~load.onload THEN instances
    ELSE {IF instance.node = load.node THEN [instance EXCEPT !.image = TRUE]
          ELSE instance : instance \in instances}

ImageLoadSettles ==
    /\ \E load \in imageLoads :
          /\ imageLoads' = imageLoads \ {load}
          /\ images' = onload(images, load)
          /\ imageObs' = [imageObs EXCEPT !.settled = TRUE, !.handled = load.onload]
    /\ UNCHANGED <<resizeObs, valVars, refVars, texVars, viewVars, pointerVars, dielineVars,
                   dielineLoads, error, loadObs, pendingPlacement, placementLoads,
                   placementDeps, placementObs>>

\* The natural size the browser reports for the picture of an asset.
NaturalSize == [width |-> 64, height |-> 48]

\* The image nodes whose natural-size effect has something to do after a
\* render: the picture is there and the node has no stored width or height.
\* They are listed in the order the stage draws them.
RECURSIVE NodesToFill(_, _)
NodesToFill(ns, i) ==
    IF i > Len(ns) THEN <<>>
    ELSE IF /\ ns[i].type = "image"
            /\ [node |-> ns[i].id, image |-> TRUE] \in images
            /\ LacksSize(ns[i])
         THEN <<ns[i].id>> \o NodesToFill(ns, i + 1)
         ELSE NodesToFill(ns, i + 1)

\* The effects of one render run one after the other; each calls the onChange
\* of that render, which is handleImageNodeChange with the nodes the render
\* captured.
RECURSIVE FlushNaturalSize(_, _, _, _)
FlushNaturalSize(s, captured, ids, gridSize) ==
    IF ids = <<>> THEN s
    ELSE FlushNaturalSize(
            handleImageNodeChange(s, captured, Head(ids), NaturalSize, gridSize),
            captured, Tail(ids), gridSize)

\* The natural-size effects of CanvasImage after a render:
\* onChange(node.id, { width: image.width, height: image.height }) for every
\* image node whose picture is there and whose width or height is missing.
NaturalSizeEffect ==
    /\ mounted
    /\ LET ids == NodesToFill(nodes, 1)
       IN  /\ ids # <<>>
           /\ ImageBecomes("fillSize",
                 FlushNaturalSize(State, nodes, ids, IF showGrid THEN GRID_SIZE ELSE 0))
           /\ imageObs' = [imageObs EXCEPT !.filled = Len(ids)]
    /\ UNCHANGED <<resizeObs, nextId, rotationSession, trail, gestureObs, refVars, texVars, viewVars,
                   pointerVars, dielineVars, dielineLoads, error, loadObs,
                   pendingPlacement, placementLoads, placementDeps, placementObs,
                   imageLoads, images>>

NoImageObs == [filled |-> 0, settled |-> FALSE, handled |-> FALSE]

NoLoadObs == [settled |-> FALSE, cancelled |-> FALSE, description |-> <<>>,
              result |-> <<>>, wrote |-> FALSE]

\* The effect that loads the dieline when the canvas mounts; each run holds
\* its own isMounted flag.
StartDielineLoadOf(descriptions) ==
    /\ mounted
    /\ \A load \in dielineLoads : ~load.isMounted
    /\ Cardinality(dielineLoads) < MaxPending
    /\ ~dieline.loaded /\ error = ""
    /\ \E description \in descriptions :
          dielineLoads' = dielineLoads \cup {[description |-> description, isMounted |-> TRUE]}
    /\ UNCHANGED <<resizeObs, dieline, dielineObs, error, loadObs, pendingPlacement, placementLoads,
                   placementDeps, placementObs, imageLoads, images, imageObs,
                   valVars, refVars, texVars, viewVars, pointerVars>>

StartDielineLoad == StartDielineLoadOf(Descriptions)

\* The same effect on a page whose dieline file is a good one.
StartPageDielineLoad == StartDielineLoadOf({Description(GoodSize, GoodElements)})

\* The promise of a load settles: then(setDieline) or catch(setError), both
\* only while the run's isMounted flag is set.
DielineLoadSettles ==
    /\ \E load \in dielineLoads :
        LET result == loadDielineDocument(load.description)
        IN  /\ dielineLoads' = dielineLoads \ {load}
            /\ dieline' = IF load.isMounted /\ result.ok
                          THEN [loaded |-> TRUE, x |-> result.x.v, y |-> result.y.v,
                                width |-> result.width.v, height |-> result.height.v]
                          ELSE dieline
            /\ error' = IF load.isMounted /\ ~result.ok THEN result.error ELSE error
            /\ loadObs' = [settled |-> TRUE, cancelled |-> ~load.isMounted,
                           description |-> load.description, result |-> result,
                           wrote |-> dieline' # dieline \/ error' # error]
    /\ UNCHANGED <<resizeObs, dielineObs, pendingPlacement, placementLoads, placementDeps, placementObs,
                   imageLoads,
                   images, imageObs, valVars, refVars, texVars, viewVars, pointerVars>>

MIN_TRANSFORM_SIZE == 5

CORNER_ANCHORS == {"top-left", "top-right", "bottom-right", "bottom-left"}

ALL_TRANSFORMER_ANCHORS ==
    {"top-left", "top-center", "top-right", "middle-right", "bottom-right",
     "bottom-center", "bottom-left", "middle-left"}

CORNER_TRANSFORMER_ANCHORS == {"top-left", "top-right", "bottom-right", "bottom-left"}

\* transformerAnchors: the anchors the transformer offers.
transformerAnchors(primaryLockAspectRatio) ==
    IF primaryLockAspectRatio THEN CORNER_TRANSFORMER_ANCHORS ELSE ALL_TRANSFORMER_ANCHORS

\* activeAnchor.includes("left") and activeAnchor.includes("top").
IncludesLeft(anchor) == anchor \in {"top-left", "bottom-left", "middle-left"}

IncludesTop(anchor) == anchor \in {"top-left", "top-center", "top-right"}

Abs(n) == IF n < 0 THEN -n ELSE n

\* The rotation both functions resolve: the new box's when it is finite, else
\* the old box's, else the fallback.
ResolvedRotation(oldBox, newBox, fallbackRotation) ==
    IF IsFinite(newBox.rotation) THEN newBox.rotation
    ELSE IF IsFinite(oldBox.rotation) THEN oldBox.rotation
    ELSE fallbackRotation

\* A box whose x, y, width and height are fractions with the denominator den.
Box(x, y, width, height, den, rotation) ==
    [x |-> x, y |-> y, width |-> width, height |-> height, den |-> den,
     rotation |-> rotation]

\* applyMinSizeConstraint: a side below the minimum is set to the minimum,
\* the side opposite the active anchor staying where the old box has it.
applyMinSizeConstraint(activeAnchor, oldBox, newBox, fallbackRotation) ==
    LET narrow == newBox.width < MIN_TRANSFORM_SIZE
        low == newBox.height < MIN_TRANSFORM_SIZE
        width == IF narrow THEN MIN_TRANSFORM_SIZE ELSE newBox.width
        height == IF low THEN MIN_TRANSFORM_SIZE ELSE newBox.height
        oppositeX == IF IncludesLeft(activeAnchor) THEN oldBox.x + oldBox.width
                     ELSE oldBox.x
        oppositeY == IF IncludesTop(activeAnchor) THEN oldBox.y + oldBox.height
                     ELSE oldBox.y
        x == IF ~narrow THEN newBox.x
             ELSE IF IncludesLeft(activeAnchor) THEN oppositeX - width ELSE oppositeX
        y == IF ~low THEN newBox.y
             ELSE IF IncludesTop(activeAnchor) THEN oppositeY - height ELSE oppositeY
    IN  Box(x, y, width, height, 1, ResolvedRotation(oldBox, newBox, fallbackRotation))

\* constrainBoundingBox, the boundBoxFunc of the transformer.  "" stands for
\* no active anchor.  The scale of the corner branch is the fraction
\* num / den, and the box that branch returns is in units of 1 / den.
constrainBoundingBox(activeAnchor, oldBox, newBox) ==
    IF activeAnchor = ""
    THEN Box(newBox.x, newBox.y, newBox.width, newBox.height, 1, newBox.rotation)
    ELSE LET resolvedRotation == ResolvedRotation(oldBox, newBox, Num(0))
         IN  IF activeAnchor \in CORNER_ANCHORS
             THEN LET oppositeX == IF IncludesLeft(activeAnchor)
                                   THEN oldBox.x + oldBox.width ELSE oldBox.x
                      oppositeY == IF IncludesTop(activeAnchor)
                                   THEN oldBox.y + oldBox.height ELSE oldBox.y
                      \* widthScale = wn / wd, heightScale = hn / hd
                      wn == IF oldBox.width = 0 THEN 1 ELSE Abs(newBox.width)
                      wd == IF oldBox.width = 0 THEN 1 ELSE Abs(oldBox.width)
                      hn == IF oldBox.height = 0 THEN 1 ELSE Abs(newBox.height)
                      hd == IF oldBox.height = 0 THEN 1 ELSE Abs(oldBox.height)
                      widthWins == wn * hd >= hn * wd
                      num == IF widthWins THEN wn ELSE hn
                      den == IF widthWins THEN wd ELSE hd
                      width == Max(MIN_TRANSFORM_SIZE * den, oldBox.width * num)
                      height == Max(MIN_TRANSFORM_SIZE * den, oldBox.height * num)
                  IN  Box(IF IncludesLeft(activeAnchor) THEN oppositeX * den - width
                          ELSE oppositeX * den,
                          IF IncludesTop(activeAnchor) THEN oppositeY * den - height
                          ELSE oppositeY * den,
                          width, height, den, resolvedRotation)
             ELSE applyMinSizeConstraint(activeAnchor, oldBox, newBox, resolvedRotation)

\* The boxes the transformer hands to boundBoxFunc: the box before the pointer
\* moved, and the box the pointer asks for (its width is negative when the
\* handle was dragged across the opposite side).
OldBoxes ==
    {[x |-> 20, y |-> 30, width |-> w, height |-> h, rotation |-> Num(0)]
        : w \in {10}, h \in {100}}
    \cup {[x |-> 20, y |-> 30, width |-> 40, height |-> 20, rotation |-> Num(0)]}

NewBoxes ==
    {[x |-> 26, y |-> 30, width |-> w, height |-> h, rotation |-> Num(0)]
        : w \in {-20, 2, 20, 80}, h \in {2, 20, 50}}
    \cup {[x |-> 20, y |-> 30, width |-> 20, height |-> 20, rotation |-> NaN]}

NoResizeObs ==
    [done |-> FALSE, locked |-> FALSE, activeAnchor |-> "", oldBox |-> <<>>,
     newBox |-> <<>>, box |-> <<>>]

\* The transformer calls boundBoxFunc while a handle of the primary selected
\* node is dragged.
BoundBoxFunc ==
    /\ mounted
    /\ \E locked \in BOOLEAN, oldBox \in OldBoxes, newBox \in NewBoxes :
          \E activeAnchor \in transformerAnchors(locked) \cup {""} :
             resizeObs' = [done |-> TRUE, locked |-> locked, activeAnchor |-> activeAnchor,
                           oldBox |-> oldBox, newBox |-> newBox,
                           box |-> constrainBoundingBox(activeAnchor, oldBox, newBox)]
    /\ UNCHANGED <<valVars, refVars, texVars, viewVars, pointerVars, dielineVars,
                   dielineLoads, error, loadObs, pendingPlacement, placementLoads,
                   placementDeps, placementObs, imageLoads, images, imageObs>>

Init ==
    /\ nodes = <<>>
    /\ selection = <<>>
    /\ past = <<>>
    /\ future = <<>>
    /\ nextId = 1
    /\ rotationSession = NoSession
    /\ lastOp = [name |-> "init", changed |-> FALSE]
    /\ trail = <<>>
    /\ gestureObs = NoObs
    /\ heap = <<[kind |-> "array", items |-> <<>>]>>
    /\ store = [nodes |-> 1, selection |-> <<>>, past |-> <<>>, future |-> <<>>]
    /\ held = {}
    /\ snap = <<>>
    /\ refSteps = 0
    /\ refOp = "init"
    /\ mounted = FALSE
    /\ canvasRotation = 0
    /\ scene = {}
    /\ showGrid = FALSE
    /\ layers = [background |-> TRUE, dieline |-> TRUE, grid |-> FALSE,
                 transformer |-> FALSE]
    /\ drawPending = FALSE
    /\ faces = createInitialFaces
    /\ timers = {}
    /\ textureUpdateTimerRef = 0
    /\ burst = [since |-> 0, runs |-> 0, triggers |-> 0]
    /\ texObs = NoTexObs
    /\ faceVersionsRef = NoVersions
    /\ materialMap = NoMaterialMap
    /\ loads = {}
    /\ facesSeen = UnseenFaces
    /\ previewObs = NoPreviewObs
    /\ loadErrors = 0
    /\ zoom = Num(1000)
    /\ viewObs = NoViewObs
    /\ sessionPointerId = 0
    /\ pointerObs = NoPointerObs
    /\ dieline = NoDieline
    /\ dielineObs = NoDielineObs
    /\ dielineLoads = {}
    /\ error = ""
    /\ loadObs = NoLoadObs
    /\ pendingPlacement = NoPlacement
    /\ placementLoads = {}
    /\ placementDeps = NoDeps
    /\ placementObs = NoPlacementObs
    /\ imageLoads = {}
    /\ images = {}
    /\ imageObs = NoImageObs
    /\ resizeObs = NoResizeObs

Next ==
    \/ HandleDrop
    \/ HandleNodeSelect
    \/ HandleShapeNodeChange
    \/ DeleteSelection
    \/ Undo
    \/ Redo
    \/ RotateSelectionClockwise
    \/ BringSelectionToFront
    \/ SendSelectionBackward
    \/ HandleRotationCommit

Spec == Init /\ [][Next]_vars

\* The store with change handlers that also run from closures of earlier renders.
NextStale ==
    \/ HandleDrop
    \/ HandleNodeSelect
    \/ HandleShapeNodeChange
    \/ HandleShapeNodeChangeStale
    \/ DeleteSelection
    \/ Undo
    \/ Redo
    \/ BringSelectionToFront
    \/ SendSelectionBackward

SpecStale == Init /\ [][NextStale]_vars

\* The rotation handle's gesture on top of a store that nodes are dropped
\* into, selected in and undone in.
NextGesture ==
    \/ HandleDrop
    \/ HandleNodeSelect
    \/ Undo
    \/ Redo
    \/ HandleRotationCommit
    \/ HandleRotatePointerDown
    \/ HandleRotatePointerMove
    \/ HandleRotatePointerUp

SpecGesture == Init /\ [][NextGesture]_vars

(***************************************************************************)
(* The store over the JavaScript heap.                                     *)
(*                                                                         *)
(* Arrays, node objects and data objects are heap objects with an address  *)
(* (their index in heap); a new object is appended.  The store's nodes,    *)
(* and every entry of past and future, is the address of an array of node  *)
(* addresses; a node object holds the address of its data object.  Every   *)
(* data field of the four node variants is a primitive, so a data object   *)
(* holds values.  The arrays past and future themselves are rebuilt by     *)
(* every reducer and are kept as sequences.                                *)
(***************************************************************************)
DataObj(fields) == [kind |-> "data", fields |-> fields]

NodeObj(id, type, data) == [kind |-> "node", id |-> id, type |-> type, data |-> data]

ArrayObj(items) == [kind |-> "array", items |-> items]

\* cloneNode that spreads the node only: the copy points at the node's own
\* data object.
cloneNodeRefMutantSharedData(h, a) ==
    LET h1 == Append(h, NodeObj(h[a].id, h[a].type, h[a].data))
    IN  [heap |-> h1, addr |-> Len(h1)]

\* cloneNode: a new data object with the data's fields, and a new node object
\* with the node's fields that points at it.
cloneNodeRef(h, a) ==
    LET node == h[a]
        h1 == Append(h, DataObj(h[node.data].fields))
        h2 == Append(h1, NodeObj(node.id, node.type, Len(h1)))
    IN  [heap |-> h2, addr |-> Len(h2)]

RECURSIVE cloneItems(_, _, _)
cloneItems(h, items, acc) ==
    IF items = <<>> THEN [heap |-> h, addrs |-> acc]
    ELSE LET c == cloneNodeRef(h, Head(items))
         IN  cloneItems(c.heap, Tail(items), Append(acc, c.addr))

\* cloneNodes: nodes.map(cloneNode), a new array of the clones.
cloneNodesRef(h, items) ==
    LET c == cloneItems(h, items, <<>>)
        h1 == Append(c.heap, ArrayObj(c.addrs))
    IN  [heap |-> h1, addr |-> Len(h1)]

\* The nodes of the store's current array, as values with the node's address.
ItemsOf(h, s) == h[s.nodes].items

IdOfItems(h, items) == [i \in 1..Len(items) |-> [id |-> h[items[i]].id]]

\* { nodes: cloneNodes(nextNodes), past: [...state.past,
\*   cloneNodes(state.nodes)], future: [] }
CommitRef(h, s, nextItems) ==
    LET c == cloneNodesRef(h, nextItems)
        p == cloneNodesRef(c.heap, ItemsOf(h, s))
    IN  [heap |-> p.heap,
         store |-> [s EXCEPT !.nodes = c.addr,
                             !.past = Append(s.past, p.addr),
                             !.future = <<>>]]

Same(h, s) == [heap |-> h, store |-> s]

setNodesRef(h, s, arr) == CommitRef(h, s, h[arr].items)

addNodeRef(h, s, a) ==
    LET c == cloneNodeRef(h, a)
        h1 == Append(c.heap, ArrayObj(Append(ItemsOf(h, s), c.addr)))
        p == cloneNodesRef(h1, ItemsOf(h, s))
    IN  [heap |-> p.heap,
         store |-> [s EXCEPT !.nodes = Len(h1),
                             !.past = Append(s.past, p.addr),
                             !.future = <<>>]]

deleteSelectionRef(h, s) ==
    IF Len(s.selection) = 0 THEN Same(h, s)
    ELSE LET remainingNodes ==
                 SelectSeq(ItemsOf(h, s), LAMBDA a : h[a].id \notin Range(s.selection))
         IN  IF Len(remainingNodes) = Len(ItemsOf(h, s)) THEN Same(h, s)
             ELSE LET r == CommitRef(h, s, remainingNodes)
                  IN  [r EXCEPT !.store.selection = <<>>]

undoRef(h, s) ==
    IF Len(s.past) = 0 THEN Same(h, s)
    ELSE LET previous == s.past[Len(s.past)]
             updatedPast == SubSeq(s.past, 1, Len(s.past) - 1)
             c == cloneNodesRef(h, h[previous].items)
             f == cloneNodesRef(c.heap, ItemsOf(h, s))
         IN  [heap |-> f.heap,
              store |-> [nodes |-> c.addr, past |-> updatedPast,
                         future |-> <<f.addr>> \o s.future, selection |-> <<>>]]

redoRef(h, s) ==
    IF Len(s.future) = 0 THEN Same(h, s)
    ELSE LET next == Head(s.future)
             rest == Tail(s.future)
             c == cloneNodesRef(h, h[next].items)
             p == cloneNodesRef(c.heap, ItemsOf(h, s))
         IN  [heap |-> p.heap,
              store |-> [nodes |-> c.addr, past |-> Append(s.past, p.addr),
                         future |-> rest, selection |-> <<>>]]

updateNodeRef(h, s, nodeId, updates, commit) ==
    LET index == FindIndex(IdOfItems(h, ItemsOf(h, s)), nodeId)
    IN  IF index = 0 THEN Same(h, s)
        ELSE LET node == h[ItemsOf(h, s)[index]]
                 nextData == MergeData(h[node.data].fields, updates)
                 h1 == Append(h, DataObj(nextData))
                 h2 == Append(h1, NodeObj(node.id, node.type, Len(h1)))
                 nextNodes == [ItemsOf(h, s) EXCEPT ![index] = Len(h2)]
             IN  IF ~hasShallowChanges(h[node.data].fields, nextData) THEN Same(h, s)
                 ELSE IF commit = FALSE
                 THEN LET c == cloneNodesRef(h2, nextNodes)
                      IN  [heap |-> c.heap, store |-> [s EXCEPT !.nodes = c.addr]]
                 ELSE CommitRef(h2, s, nextNodes)

\* The map callback of rotateSelectionClockwise over the array: a selected
\* node whose rotation changes is replaced by a new node object with a new
\* data object, every other node object is passed on.
RECURSIVE rotateItems(_, _, _, _)
rotateItems(h, s, items, acc) ==
    IF items = <<>> THEN [heap |-> h, addrs |-> acc]
    ELSE LET a == Head(items)
             node == h[a]
             value == [id |-> node.id, data |-> h[node.data].fields]
             rotated == RotatedNode(s, value)
         IN  IF rotated = value
             THEN rotateItems(h, s, Tail(items), Append(acc, a))
             ELSE LET h1 == Append(h, DataObj(rotated.data))
                      h2 == Append(h1, NodeObj(node.id, node.type, Len(h1)))
                  IN  rotateItems(h2, s, Tail(items), Append(acc, Len(h2)))

rotateSelectionClockwiseRef(h, s) ==
    IF Len(s.selection) = 0 THEN Same(h, s)
    ELSE LET m == rotateItems(h, s, ItemsOf(h, s), <<>>)
             hasUpdates == m.addrs # ItemsOf(h, s)
         IN  IF ~hasUpdates THEN Same(h, s)
             ELSE CommitRef(m.heap, s, m.addrs)

bringSelectionToFrontRef(h, s) ==
    IF Len(s.selection) = 0 THEN Same(h, s)
    ELSE LET selectedId == s.selection[Len(s.selection)]
             items == ItemsOf(h, s)
             index == FindIndex(IdOfItems(h, items), selectedId)
         IN  IF index = 0 \/ index = Len(items) THEN Same(h, s)
             ELSE CommitRef(h, s, Append(RemoveAt(items, index), items[index]))

sendSelectionBackwardRef(h, s) ==
    IF Len(s.selection) = 0 THEN Same(h, s)
    ELSE LET selectedId == s.selection[Len(s.selection)]
             items == ItemsOf(h, s)
             index == FindIndex(IdOfItems(h, items), selectedId)
         IN  IF index <= 1 THEN Same(h, s)
             ELSE CommitRef(h, s, InsertAt(RemoveAt(items, index), index - 1, items[index]))

\* The value of an array of nodes: what a reader of the array sees.
Content(h, arr) ==
    [i \in 1..Len(h[arr].items) |->
        LET node == h[h[arr].items[i]]
        IN  [id |-> node.id, type |-> node.type, data |-> h[node.data].fields]]

\* The objects reached from an array: the array, its nodes and their data.
Reach(h, arr) ==
    {arr} \cup Range(h[arr].items) \cup {h[a].data : a \in Range(h[arr].items)}

HistoryEntries(s) == Range(s.past) \cup Range(s.future)

\* Each history entry with the content it had when a reducer stored it.
SnapAfter(h, s) ==
    [a \in HistoryEntries(s) |-> IF a \in DOMAIN snap THEN snap[a] ELSE Content(h, a)]

\* A step of a reducer over the heap.
RefBecomes(r, name) ==
    /\ refSteps < MaxRefSteps
    /\ heap' = r.heap
    /\ store' = r.store
    /\ snap' = SnapAfter(r.heap, r.store)
    /\ refSteps' = refSteps + 1
    /\ refOp' = name
    /\ UNCHANGED <<valVars, texVars, otherVars>>

\* handleDrop: the caller builds a node and its data, passes the node to
\* addNode and selects it; it still holds both objects afterwards.
RefHandleDrop ==
    LET h1 == Append(heap, DataObj(DroppedNode(0).data))
        h2 == Append(h1, NodeObj(refSteps + 1, DroppedNode(0).type, Len(h1)))
        r == addNodeRef(h2, store, Len(h2))
    IN  /\ Len(ItemsOf(heap, store)) < MaxIds
        /\ RefBecomes([r EXCEPT !.store.selection = <<refSteps + 1>>], "addNode")
        /\ held' = held \cup {Len(h1), Len(h2)}

RefHandleNodeSelect ==
    \E a \in Range(ItemsOf(heap, store)) :
        /\ store.selection # <<heap[a].id>>
        /\ store' = [store EXCEPT !.selection = <<heap[a].id>>]
        /\ refOp' = "setSelection"
        /\ UNCHANGED <<heap, held, snap, refSteps, valVars, texVars, otherVars>>

\* handleShapeNodeChange: nodes.map(...) builds a new array that holds a new
\* node object with a new data object for the changed node and the store's own
\* node objects for the others; the caller passes it to setNodes and holds on
\* to the array and to everything in it.
RefHandleShapeNodeChange ==
    \E index \in 1..Len(ItemsOf(heap, store)), updates \in DataUpdates :
        LET items == ItemsOf(heap, store)
            node == heap[items[index]]
            h1 == Append(heap, DataObj(MergeData(heap[node.data].fields, updates)))
            h2 == Append(h1, NodeObj(node.id, node.type, Len(h1)))
            h3 == Append(h2, ArrayObj([items EXCEPT ![index] = Len(h2)]))
        IN  /\ RefBecomes(setNodesRef(h3, store, Len(h3)), "setNodes")
            /\ held' = held \cup Reach(h3, Len(h3))

RefUpdateNode ==
    \E a \in Range(ItemsOf(heap, store)), updates \in DataUpdates, commit \in BOOLEAN :
        LET r == updateNodeRef(heap, store, heap[a].id, updates, commit)
        IN  /\ r.store # store
            /\ RefBecomes(r, IF commit THEN "updateNode" ELSE "updateNodeLive")
            /\ UNCHANGED held

RefDeleteSelection ==
    LET r == deleteSelectionRef(heap, store)
    IN  /\ r.store # store
        /\ RefBecomes(r, "deleteSelection")
        /\ UNCHANGED held

RefUndo ==
    LET r == undoRef(heap, store)
    IN  /\ r.store # store
        /\ RefBecomes(r, "undo")
        /\ UNCHANGED held

RefRedo ==
    LET r == redoRef(heap, store)
    IN  /\ r.store # store
        /\ RefBecomes(r, "redo")
        /\ UNCHANGED held

RefRotateSelectionClockwise ==
    LET r == rotateSelectionClockwiseRef(heap, store)
    IN  /\ r.store # store
        /\ RefBecomes(r, "rotateSelectionClockwise")
        /\ UNCHANGED held

RefBringSelectionToFront ==
    LET r == bringSelectionToFrontRef(heap, store)
    IN  /\ r.store # store
        /\ RefBecomes(r, "bringSelectionToFront")
        /\ UNCHANGED held

RefSendSelectionBackward ==
    LET r == sendSelectionBackwardRef(heap, store)
    IN  /\ r.store # store
        /\ RefBecomes(r, "sendSelectionBackward")
        /\ UNCHANGED held

\* A caller reads the store's nodes (a selector, getState) and keeps the
\* array, the node objects and the data objects it got.
RefReadNodes ==
    /\ ~(Reach(heap, store.nodes) \subseteq held)
    /\ held' = held \cup Reach(heap, store.nodes)
    /\ refOp' = "readNodes"
    /\ UNCHANGED <<heap, store, snap, refSteps, valVars, texVars, otherVars>>

\* A caller writes to an object it holds: a field of a data object, the data
\* of a node object, or the length of an array.
RefCallerMutates ==
    /\ refSteps < MaxRefSteps
    /\ \E a \in held :
        \/ /\ heap[a].kind = "data"
           /\ \E updates \in DataUpdates :
                /\ hasShallowChanges(heap[a].fields, MergeData(heap[a].fields, updates))
                /\ heap' = [heap EXCEPT ![a].fields = MergeData(@, updates)]
        \/ /\ heap[a].kind = "node"
           /\ \E d \in held :
                /\ heap[d].kind = "data"
                /\ d # heap[a].data
                /\ heap' = [heap EXCEPT ![a].data = d]
        \/ /\ heap[a].kind = "array"
           /\ heap[a].items # <<>>
           /\ heap' = [heap EXCEPT ![a].items = SubSeq(@, 1, Len(@) - 1)]
    /\ refSteps' = refSteps + 1
    /\ refOp' = "callerMutates"
    /\ UNCHANGED <<store, held, snap, valVars, texVars, otherVars>>

NextRef ==
    \/ RefHandleDrop
    \/ RefHandleNodeSelect
    \/ RefHandleShapeNodeChange
    \/ RefUpdateNode
    \/ RefDeleteSelection
    \/ RefUndo
    \/ RefRedo
    \/ RefRotateSelectionClockwise
    \/ RefBringSelectionToFront
    \/ RefSendSelectionBackward
    \/ RefReadNodes
    \/ RefCallerMutates

SpecRef == Init /\ [][NextRef]_vars

\* The canvas stage's side of the texture pipeline: scheduling, rotation of
\* the canvas, publication, teardown.
NextTexture ==
    \/ Mount
    \/ SceneChange
    \/ RotateCanvasLeft
    \/ RotateCanvasRight
    \/ HandleDraw
    \/ HandleChange
    \/ Tick
    \/ TimerFires
    \/ Teardown

SpecTexture == Init /\ [][NextTexture]_vars

\* The rasterization runs of an unrotated canvas whose overlays are toggled.
NextCapture ==
    \/ Mount
    \/ SceneChange
    \/ HandleToggleGrid
    \/ HandleToggleBounds
    \/ HandleDraw
    \/ Tick
    \/ TimerFires

SpecCapture == Init /\ [][NextCapture]_vars

\* The 3D preview's side: the stage publishes, the preview reloads.
NextPreview ==
    \/ Mount
    \/ Publishes
    \/ FaceTextureEffect
    \/ LoadCompletes
    \/ Teardown

SpecPreview == Init /\ [][NextPreview]_vars

\* One stay on the page, with texture loads that may fail.
NextPreviewLoads ==
    \/ Mount
    \/ Publishes
    \/ FaceTextureEffect
    \/ LoadCompletes
    \/ LoadFails

SpecPreviewLoads == Init /\ [][NextPreviewLoads]_vars

\* React runs the effect after every render in which faces changed, and the
\* texture loader settles every load it started, one way or the other.
SpecPreviewFair ==
    /\ Init
    /\ [][NextPreviewLoads]_vars
    /\ WF_vars(FaceTextureEffect)
    /\ WF_vars(LoadCompletes \/ LoadFails)

\* The rotate and z-order buttons over a document of up to MaxOrderIds nodes.
NextOrder ==
    \/ OrderHandleDrop
    \/ OrderHandleNodeSelect
    \/ OrderRotateSelectionClockwise
    \/ OrderBringSelectionToFront
    \/ OrderSendSelectionBackward

SpecOrder == Init /\ [][NextOrder]_vars

\* The rotate handle with several pointers.
NextPointer ==
    \/ HandleDrop
    \/ HandleNodeSelect
    \/ PointerDownOnRotateHandle
    \/ DocumentPointerMove
    \/ DocumentPointerUp

SpecPointer == Init /\ [][NextPointer]_vars

\* The zoom and rotation reducers of the store.
NextView ==
    \/ SetZoom
    \/ ZoomIn
    \/ ZoomOut
    \/ ResetZoom
    \/ StoreRotateCanvasLeft
    \/ StoreRotateCanvasRight
    \/ SetRotation

SpecView == Init /\ [][NextView]_vars

\* The text panel, the text nodes on the canvas and the grid switch.
NextText ==
    \/ Mount
    \/ HandleAddPreset
    \/ HandlePropertyChange
    \/ HandleTextNodeChange
    \/ HandleToggleGrid
    \/ TextUndo
    \/ TextRedo

SpecText == Init /\ [][NextText]_vars

\* The dieline of the page and the containment tests of the shapes.
NextDieline ==
    \/ SetDieline
    \/ UpdateShapeOpacityForDieline

SpecDieline == Init /\ [][NextDieline]_vars

\* The canvas mounts and unmounts while its dieline loads.
NextLoad ==
    \/ Mount
    \/ Teardown
    \/ StartDielineLoad
    \/ DielineLoadSettles

SpecLoad == Init /\ [][NextLoad]_vars

\* Assets are placed from the panels while the canvas mounts, loads its
\* dieline and unmounts; the placed nodes load their pictures.
NextAsync ==
    \/ Mount
    \/ Teardown
    \/ StartPageDielineLoad
    \/ DielineLoadSettles
    \/ QueueAssetPlacement
    \/ PlacementEffect
    \/ PlacementLoadSettles
    \/ UseImage
    \/ ImageLoadSettles

SpecAsync == Init /\ [][NextAsync]_vars

\* Images are dropped on the canvas, load, get their natural size filled in,
\* and the user undoes.
NextImage ==
    \/ Mount
    \/ Teardown
    \/ HandleDropImage
    \/ UseImage
    \/ CanvasImageUnmounts
    \/ ImageLoadSettles
    \/ NaturalSizeEffect
    \/ Undo

SpecImage == Init /\ [][NextImage]_vars

\* A handle of the transformer is dragged on the mounted canvas.
NextResize ==
    \/ Mount
    \/ Teardown
    \/ BoundBoxFunc

SpecResize == Init /\ [][NextResize]_vars

(***************************************************************************)
(* Properties.                                                             *)
(***************************************************************************)
TrailTop == trail[Len(trail)]

EditOps ==
    {"setNodes", "addNode", "deleteSelection", "updateNode", "bringSelectionToFront",
     "sendSelectionBackward", "rotateSelectionClockwise"}

\* C1, as stated: after n calls of committing edits followed by n undos the
\* node collection is the one held before the first of the calls.  Checked at
\* every undo of a run of edit calls and undos and nothing else: the undo that
\* pairs with an edit call restores the collection held before that call.
C1_UndoRestoresRunStart ==
    [][(lastOp'.name = "undo" /\ trail # <<>> /\ TrailTop.pure)
          => nodes' = TrailTop.nodes]_vars

\* C1, amended: the same for runs of edit calls each of which pushed a history
\* entry.
C1_UndoRestoresEffectiveRunStart ==
    [][(lastOp'.name = "undo" /\ trail # <<>> /\ TrailTop.eff)
          => nodes' = TrailTop.nodes]_vars

\* Two effective edits were made, the first undo has restored the collection
\* held before the second edit, and the second undo is due.
C1_Witness ==
    /\ lastOp.name = "undo"
    /\ lastOp.changed
    /\ trail # <<>>
    /\ TrailTop.eff
    /\ future # <<>>
    /\ nodes # future[1]

\* C2: a run of k >= 1 updateNode calls with commit:false on one node, ended
\* by a committing updateNode on that node that passes the last live value,
\* makes past longer by exactly one.
C2_GestureAddsOneEntry ==
    (gestureObs.ended /\ gestureObs.same) => Len(past) = gestureObs.pastLen + 1

\* C3: the snapshot that the committing call ending a gesture pushes onto past
\* is the collection held before the gesture's first non-committing call, so
\* one undo after the gesture restores that collection.
C3_GestureSnapshotIsPreGesture ==
    (gestureObs.ended /\ Len(past) = gestureObs.pastLen + 1)
        => /\ past[Len(past)] = gestureObs.before
           /\ undo(State).nodes = gestureObs.before

\* C4: from any state with a non-empty past, undo followed at once by redo
\* gives back the same nodes, past and future.
C4_UndoThenRedo ==
    past # <<>> =>
        LET r == redo(undo(State))
        IN  /\ r.nodes = nodes
            /\ r.past = past
            /\ r.future = future

\* A redo has acted and brought back a collection that differs from the one undone to.
C4_Witness ==
    /\ lastOp.name = "redo"
    /\ lastOp.changed
    /\ past # <<>>
    /\ nodes # past[Len(past)]

\* C5: right after an edit call that pushed a history entry future is empty
\* and a redo changes nothing.
C5_EditClearsFuture ==
    (lastOp.name \in EditOps /\ trail # <<>> /\ TrailTop.eff)
        => (future = <<>> /\ redo(State) = State)

\* An effective edit was made while a redo was possible.
C5_Witness ==
    /\ lastOp.name \in EditOps
    /\ trail # <<>>
    /\ TrailTop.eff
    /\ TrailTop.redoable
    /\ future = <<>>

\* C6, as stated: every call of setNodes, addNode or deleteSelection pushes
\* one entry, the collection held before the call, and clears future.
C6_EveryCallPushes ==
    lastOp.name \in {"setNodes", "addNode", "deleteSelection"}
        => /\ trail # <<>>
           /\ TrailTop.eff
           /\ past # <<>>
           /\ past[Len(past)] = TrailTop.nodes
           /\ future = <<>>

\* The collections the canvas handlers pass to setNodes in the current state.
SetNodesInputs ==
    {MapNodeChange(base, nodeId, updates) :
        base \in {nodes} \cup StaleNodes, nodeId \in 1..MaxIds, updates \in DataUpdates}

\* C6, amended: every call of setNodes or addNode, and every call of
\* deleteSelection that removes a node, puts the collection held before the
\* call on top of an otherwise unchanged past and clears future; a
\* deleteSelection that removes no node leaves the store as it is.
C6_CallPushesPriorCollection ==
    /\ \A ns \in SetNodesInputs :
          LET t == setNodes(State, ns)
          IN  t.nodes = ns /\ t.past = Append(past, nodes) /\ t.future = <<>>
    /\ LET t == addNode(State, DroppedNode(nextId))
       IN  /\ t.nodes = Append(nodes, DroppedNode(nextId))
           /\ t.past = Append(past, nodes)
           /\ t.future = <<>>
    /\ LET t == deleteSelection(State)
       IN  IF \E i \in 1..Len(nodes) : nodes[i].id \in Range(selection)
           THEN /\ t.past = Append(past, nodes)
                /\ t.future = <<>>
                /\ \A i \in 1..Len(t.nodes) : t.nodes[i].id \notin Range(selection)
           ELSE t = State

\* A deleteSelection removed a node while a redo was possible.
C6_Witness ==
    /\ lastOp.name = "deleteSelection"
    /\ lastOp.changed
    /\ trail # <<>>
    /\ TrailTop.redoable
    /\ past # <<>>
    /\ Len(past[Len(past)]) > Len(nodes)

\* C7: updateNode with commit:false leaves past and future as they are and
\* changes nothing in nodes but the data of the node with the given id.
C7_LiveUpdateFrame ==
    \A nodeId \in 1..MaxIds, updates \in DataUpdates :
        LET t == updateNode(State, nodeId, updates, FALSE)
        IN  /\ t.past = past
            /\ t.future = future
            /\ Len(t.nodes) = Len(nodes)
            /\ \A i \in 1..Len(nodes) :
                  /\ t.nodes[i].id = nodes[i].id
                  /\ t.nodes[i].type = nodes[i].type
                  /\ nodes[i].id # nodeId => t.nodes[i] = nodes[i]

\* A live update changed one of several nodes while past held entries.
C7_Witness ==
    /\ lastOp.name = "updateNodeLive"
    /\ lastOp.changed
    /\ past # <<>>
    /\ Len(nodes) > 1

\* C8: an updateNode whose resulting data has the same value as the current
\* data for every field leaves the whole store as it is, whatever commit is.
C8_NoChangeIsNoOp ==
    \A nodeId \in 1..MaxIds, updates \in DataUpdates, commit \in BOOLEAN :
        LET index == FindIndex(nodes, nodeId)
        IN  (/\ index # 0
             /\ \A k \in DOMAIN updates :
                   k \in DOMAIN nodes[index].data /\ nodes[index].data[k] = updates[k])
                => updateNode(State, nodeId, updates, commit) = State

\* A committing updateNode that passed the node's current rotation was made
\* and changed nothing.
C8_Witness ==
    /\ lastOp.name = "updateNode"
    /\ ~lastOp.changed
    /\ past # <<>>


\* C9: every entry of past and future is an independent snapshot: whatever the
\* reducers do afterwards, and whatever a caller writes to an object it passed
\* in or read out of the current nodes, each stored entry still has the
\* content it had when it was stored.
C9_EntriesKeepContent ==
    \A a \in DOMAIN snap : Content(heap, a) = snap[a]

\* C9 is met where a caller has just written to an object it holds while both
\* past and future hold entries, and the current nodes differ from every entry.
C9_Witness ==
    /\ refOp = "callerMutates"
    /\ store.past # <<>>
    /\ store.future # <<>>
    /\ \A a \in DOMAIN snap : Content(heap, store.nodes) # snap[a]

\* C10: no two nodes of the node collection have the same id.
C10_UniqueIds ==
    \A i, j \in 1..Len(nodes) : nodes[i].id = nodes[j].id => i = j

\* Two nodes are held after a change handler ran from a stale closure.
C10_Witness ==
    /\ Len(nodes) = MaxIds
    /\ lastOp.name = "setNodesStale"
    /\ lastOp.changed
    /\ past # <<>>

RasterInputs ==
    {Null} \cup {toDataURL("front", {n}, 0, [transformer |-> FALSE]) : n \in SceneNodes}

UpdateInputs == UNION {[D -> RasterInputs] : D \in SUBSET {"front", "right"}}

\* C12: for every setFaceTextures(updates) and every face: a face named with a
\* raster other than its stored one (no raster counts as a raster of its own)
\* gets that raster and its version plus one; a face named with its stored
\* raster, or not named, keeps raster and version; publishing the same updates
\* again changes nothing.
C12_VersionBumpsOnChangeOnly ==
    \A updates \in UpdateInputs :
        LET published == setFaceTextures(faces, updates)
        IN  /\ \A key \in BoxFaceKey :
                IF key \in DOMAIN updates /\ updates[key] # faces[key].dataUrl
                THEN /\ published[key].version = faces[key].version + 1
                     /\ published[key].dataUrl = updates[key]
                ELSE published[key] = faces[key]
            /\ setFaceTextures(published, updates) = published

\* C12 is met after a run that named every face and changed the raster of
\* front only: front has its second version, the other faces their first.
C12_Witness ==
    /\ texObs.op = "timerFires"
    /\ texObs.named = BoxFaceKey
    /\ faces["front"].version = 2
    /\ \A key \in BoxFaceKey \ {"front"} : faces[key].version = 1

\* C13, as stated: across setFaceTextures and resetFaceTextures calls no
\* face's version becomes smaller than it was.
C13_VersionNeverDecreases ==
    [][\A key \in BoxFaceKey : faces'[key].version >= faces[key].version]_vars

\* C14: a load that completes for a face after the preview recorded a newer
\* version of the face leaves the material as it is, and the version the
\* material of a face shows never becomes smaller, whatever the order in which
\* the loads complete.
C14_StaleLoadDiscarded ==
    [][/\ (previewObs'.op = "load" /\ previewObs'.stale /\ loads' # loads) =>
             materialMap' = materialMap
       /\ mounted => \A key \in BoxFaceKey :
                        materialMap'[key].version >= materialMap[key].version]_vars

\* C14 is met where a load completed after a newer one of the same face had
\* become the material's texture, and was discarded.
C14_Witness ==
    /\ previewObs.op = "load"
    /\ previewObs.stale
    /\ \E key \in previewObs.touched :
        /\ materialMap[key].dataUrl # Null
        /\ materialMap[key].version = faceVersionsRef[key]
        /\ materialMap[key].version = 2

\* C15, as stated: a run of updateFaceTextures that fires while the canvas
\* rotation is not a multiple of 360 changes no face's raster or version.
C15_NoPublicationWhileRotated ==
    [][(texObs'.op = "timerFires" /\ canvasRotation % FullTurn # 0) => faces' = faces]_vars

\* C16, as stated: a run in which the capture of a face throws passes no face
\* to setFaceTextures and leaves every face's raster and version as they were.
C16_ThrowPublishesNothing ==
    [][(texObs'.op = "timerFires" /\ texObs'.thrown) =>
          (texObs'.named = {} /\ faces' = faces)]_vars

\* C17: after every run of updateFaceTextures that got past its preconditions,
\* whether a capture threw or not, the background, dieline and grid layers are
\* visible and the transformer has the visibility it had before the run.
C17_OverlaysRestored ==
    [][(texObs'.op = "timerFires" /\ texObs'.ran) =>
          /\ layers'.background
          /\ layers'.dieline
          /\ showGrid => layers'.grid
          /\ layers'.transformer = layers.transformer]_vars

\* C17 is met after a run in which a capture threw while the grid was
\* rendered and the transformer was visible.
C17_Witness ==
    /\ texObs.op = "timerFires"
    /\ texObs.ran
    /\ texObs.thrown
    /\ showGrid
    /\ layers.grid
    /\ layers.transformer

\* C18: the preview's effect records a version, and starts a load or clears
\* the texture, only for a face whose version in the store differs from the
\* version the preview had recorded for it.
C18_ReloadOnlyOnNewVersion ==
    [][(previewObs'.op = "effect" /\ facesSeen' # facesSeen) =>
          /\ \A key \in previewObs'.touched : faceVersionsRef[key] # faces[key].version
          /\ \A load \in loads' \ loads : load.face \in previewObs'.touched
          /\ \A key \in BoxFaceKey \ previewObs'.touched :
                materialMap'[key] = materialMap[key]]_vars

\* C18 is met after an effect that reloaded face front and left the other
\* faces, whose versions had not changed, alone.
C18_Witness ==
    /\ previewObs.op = "effect"
    /\ previewObs.touched = {"front"}
    /\ faceVersionsRef["front"] = 2
    /\ faceVersionsRef["back"] = 1

\* C19: at most one rasterization timeout is pending, it is the one the ref
\* holds; a trigger leaves exactly one timeout with the full delay to go; a
\* timeout fires only when the delay has passed since the last trigger, and
\* it is the only run since that trigger.
C19_Debounce ==
    /\ Cardinality(timers) <= 1
    /\ \A t \in timers : t.id = textureUpdateTimerRef
    /\ texObs.op \in {"draw", "change"} =>
          \E t \in timers : timers = {t} /\ t.remaining = TEXTURE_UPDATE_DEBOUNCE_MS
    /\ texObs.op = "timerFires" =>
          (burst.since >= TEXTURE_UPDATE_DEBOUNCE_MS /\ burst.runs = 1)

\* C19 is met where a timeout has fired after a burst of several triggers.
C19_Witness ==
    /\ texObs.op = "timerFires"
    /\ burst.runs = 1
    /\ burst.since >= TEXTURE_UPDATE_DEBOUNCE_MS
    /\ texObs.coalesced >= 2

\* The faces hold the captures of the current, unrotated scene.
InSync ==
    \A key \in BoxFaceKey :
        faces[key].dataUrl =
            toDataURL(key, scene, 0, [k \in DOMAIN layers |-> FALSE])

Inside(a, b) ==
    /\ b.x <= a.x
    /\ a.x + a.width <= b.x + b.width
    /\ b.y <= a.y
    /\ a.y + a.height <= b.y + b.height

C21_ZoomFiniteInRange ==
    [][/\ IsFinite(zoom')
       /\ zoom'.v \in MIN_ZOOM..MAX_ZOOM
       /\ zoom'.v % 10 = 0
       /\ (viewObs'.op = "setZoom" /\ normalizeZoom(viewObs'.arg) = zoom) =>
              ~viewObs'.changed
       /\ (viewObs'.op = "zoomIn" /\ normalizeZoom(JsAdd(zoom, Num(ZOOM_STEP))) = zoom) =>
              ~viewObs'.changed
       /\ (viewObs'.op = "zoomOut" /\ normalizeZoom(JsAdd(zoom, Num(0 - ZOOM_STEP))) = zoom) =>
              ~viewObs'.changed]_vars

\* C22, as stated: after every rotateCanvasLeft, rotateCanvasRight and
\* setRotation call the canvas rotation is in [0, 360), and rotateCanvasLeft
\* and rotateCanvasRight change it by 90 modulo 360.
C22_RotationInRange ==
    [][/\ canvasRotation' \in 0..(FullTurn - 1)
       /\ viewObs'.op = "rotateCanvasLeft" =>
              (canvasRotation' + QuarterTurn + 2 * FullTurn - canvasRotation) % FullTurn = 0
       /\ viewObs'.op = "rotateCanvasRight" =>
              (canvasRotation + QuarterTurn + 2 * FullTurn - canvasRotation') % FullTurn = 0]_vars

\* The node without its rotation field.
WithoutRotation(node) ==
    [node EXCEPT !.data = [k \in (DOMAIN node.data) \ {"rotation"} |-> node.data[k]]]

\* The store states rotateSelectionClockwise is checked on: the current one,
\* with the current selection, every node selected or none, and with any of
\* the nodes lacking a rotation field.
RotateCases ==
    {[State EXCEPT !.selection = sel,
                   !.nodes = [i \in 1..Len(nodes) |->
                                 IF i \in bare THEN WithoutRotation(nodes[i]) ELSE nodes[i]]] :
        sel \in {selection, Ids(nodes), <<>>}, bare \in SUBSET (1..Len(nodes))}

OrderCases ==
    {[State EXCEPT !.selection = sel] :
        sel \in {selection, <<>>, <<0>>}
                \cup {<<nodes[i].id>> : i \in 1..Len(nodes)}
                \cup {<<nodes[i].id, nodes[j].id>> : i, j \in 1..Len(nodes)}}

\* The position in the collection of the last id of the selection (0: the
\* selection is empty or the node is not in the collection).
PrimaryIndex(s) ==
    IF s.selection = <<>> THEN 0
    ELSE IF \E i \in 1..Len(s.nodes) : s.nodes[i].id = s.selection[Len(s.selection)]
         THEN CHOOSE i \in 1..Len(s.nodes) : s.nodes[i].id = s.selection[Len(s.selection)]
         ELSE 0

\* C24: bringSelectionToFront puts the primary selected node last and keeps
\* the other nodes in their order; when the node is last already, is not in
\* the collection or nothing is selected, the state is returned unchanged.
C24_BringToFront ==
    \A s \in OrderCases :
        LET t == bringSelectionToFront(s)
            index == PrimaryIndex(s)
            n == Len(s.nodes)
        IN  IF index = 0 \/ index = n THEN t = s
            ELSE /\ Len(t.nodes) = n
                 /\ t.nodes[n] = s.nodes[index]
                 /\ \A j \in 1..(index - 1) : t.nodes[j] = s.nodes[j]
                 /\ \A j \in (index + 1)..n : t.nodes[j - 1] = s.nodes[j]

\* C24 is met after the first of three nodes was brought to the front.
C24_Witness ==
    /\ lastOp.name = "bringSelectionToFront"
    /\ lastOp.changed
    /\ Ids(nodes) = <<2, 3, 1>>
    /\ Ids(past[Len(past)]) = <<1, 2, 3>>

\* C25: sendSelectionBackward swaps the primary selected node with the node
\* before it and leaves every other node in its place; when the node is first,
\* is not in the collection or nothing is selected, the state is returned
\* unchanged.
C25_SendBackward ==
    \A s \in OrderCases :
        LET t == sendSelectionBackward(s)
            index == PrimaryIndex(s)
            n == Len(s.nodes)
        IN  IF index <= 1 THEN t = s
            ELSE /\ Len(t.nodes) = n
                 /\ t.nodes[index - 1] = s.nodes[index]
                 /\ t.nodes[index] = s.nodes[index - 1]
                 /\ \A j \in (1..n) \ {index - 1, index} : t.nodes[j] = s.nodes[j]

\* C25 is met after the last of three nodes was sent one position backward.
C25_Witness ==
    /\ lastOp.name = "sendSelectionBackward"
    /\ lastOp.changed
    /\ Ids(nodes) = <<1, 3, 2>>
    /\ Ids(past[Len(past)]) = <<1, 2, 3>>

\* C26: while a rotation gesture is in progress a pointermove, pointerup or
\* pointercancel of a pointer other than the one that started it changes
\* neither the document nor the session, and the session ends only with the
\* pointerup or pointercancel of the pointer that started it.
C26_ForeignPointerIgnored ==
    [][/\ (/\ pointerObs' # pointerObs
           /\ pointerObs'.op \in {"pointermove", "pointerup", "pointercancel"}
           /\ pointerObs'.foreign) =>
              /\ UNCHANGED <<nodes, selection, past, future>>
              /\ rotationSession' = rotationSession
              /\ rotationSession' # NoSession
              /\ sessionPointerId' = sessionPointerId
       /\ (rotationSession # NoSession /\ rotationSession' = NoSession) =>
              /\ pointerObs' # pointerObs
              /\ pointerObs'.op \in {"pointerup", "pointercancel"}
              /\ pointerObs'.pointerId = sessionPointerId]_vars

\* C26 is met where the pointerup of another pointer arrived after the
\* gesture's pointer had moved, and the gesture is still in progress.
C26_Witness ==
    /\ pointerObs.op = "pointerup"
    /\ pointerObs.foreign
    /\ pointerObs.pointerId # sessionPointerId
    /\ rotationSession # NoSession
    /\ gestureObs.moves >= 1
    /\ ~gestureObs.ended

\* The text data the document holds, now or in its history.
TextDataReached ==
    {nodes[i].data : i \in {j \in 1..Len(nodes) : isTextNode(nodes[j])}}
    \cup UNION {{past[h][i].data : i \in {j \in 1..Len(past[h]) : isTextNode(past[h][j])}}
                   : h \in 1..Len(past)}
    \cup UNION {{future[h][i].data : i \in {j \in 1..Len(future[h]) : isTextNode(future[h][j])}}
                   : h \in 1..Len(future)}

\* C27: in every state reached through preset add, text panel property
\* change, inline text commit, drag end, transform end, grid toggle, undo and
\* redo, the cached width and height of every text node are the width and
\* height of the layout computed from the node's current text, font family,
\* font size, font weight, letter spacing, isCurved, radius and angle.
C27_CachedSizeIsLayout ==
    \A i \in 1..Len(nodes) :
        isTextNode(nodes[i]) =>
            /\ nodes[i].data.width = LayoutOf(nodes[i].data).width
            /\ nodes[i].data.height = LayoutOf(nodes[i].data).height

\* C27 (amended): the cached width and height of every text node are the
\* width and height of the layout computed from the node's current fields,
\* except that a dimension the layout gives as 0 is cached as the larger of
\* the font size and 1.
C27_CachedSizeIsLayoutOrFontSize ==
    \A i \in 1..Len(nodes) :
        isTextNode(nodes[i]) =>
            LET d == nodes[i].data
                layout == LayoutOf(d)
                sizeOr(value) == IF value = Num(0) THEN MathMax(d.fontSize, Px(1))
                                 ELSE value
            IN  /\ d.width = sizeOr(layout.width)
                /\ d.height = sizeOr(layout.height)

\* C27 witness: a text node that was snapped by the grid switch and whose
\* text was then committed in the inline editor, undone and redone.
C27_Witness ==
    /\ lastOp.name = "redo"
    /\ showGrid
    /\ \E i \in 1..Len(nodes) :
        /\ isTextNode(nodes[i])
        /\ nodes[i].data.text = "Hi"
        /\ nodes[i].data.x = 192
        /\ nodes[i].data.width = LayoutOf(nodes[i].data).width

\* A straight text whose negative letter spacing cancels the width of its
\* glyphs: the layout is 0 wide, the cached width is the font size.
C27_ZeroWidthLayout ==
    \E i \in 1..Len(nodes) :
        /\ isTextNode(nodes[i])
        /\ LayoutOf(nodes[i].data).width = Num(0)
        /\ nodes[i].data.width = nodes[i].data.fontSize

\* The numbers an update can carry.
NumericUpdates ==
    {NaN, Infinity, NegInfinity, Num(0), Px(0 - 5), Px(30)}

\* The updates of withUpdatedTextMetrics over the numeric fields.
MetricUpdateCases ==
    {<< >>}
    \cup {[fontSize |-> n] : n \in NumericUpdates}
    \cup {[letterSpacing |-> n] : n \in NumericUpdates}
    \cup {[radius |-> n] : n \in NumericUpdates}
    \cup {[angle |-> n] : n \in NumericUpdates}
    \cup {[fontSize |-> n, letterSpacing |-> n, radius |-> n, angle |-> n] : n \in NumericUpdates}

\* The previous data: the presets before their first measurement and the
\* data of the text nodes of the document, and the same without a usable
\* radius (0 or NaN).
MetricDataCases ==
    LET good == TEXT_PRESETS \cup TextDataReached
    IN  good \cup {[d EXCEPT !.radius = r] : d \in good, r \in {Num(0), NaN}}

InRangeMetrics(d) ==
    /\ IsFinite(d.fontSize) /\ d.fontSize.v > 0
    /\ IsFinite(d.letterSpacing)
    /\ IsFinite(d.angle)
    /\ IsFinite(d.radius) /\ d.radius.v # 0

\* C28: for any updates, NaN, the infinities, zero and negatives included,
\* the result of withUpdatedTextMetrics has a finite fontSize > 0, a finite
\* letterSpacing, a finite angle and a finite radius other than 0, which is
\* 150 when neither the update nor the previous data gives a usable radius.
C28_MetricsInRange ==
    \A data \in MetricDataCases : \A updates \in MetricUpdateCases :
        LET result == withUpdatedTextMetrics(data, updates)
            given == MergeData(data, updates).radius
        IN  /\ InRangeMetrics(result)
            /\ (~IsFinite(given) \/ given = Num(0)) /\ ~Truthy(data.radius)
                   => result.radius = Px(150)

\* C28 witness: a text node of the document whose font size the transform
\* end changed, for which NaN as the new font size is repaired to the
\* previous one.
C28_Witness ==
    \E i \in 1..Len(nodes) :
        /\ isTextNode(nodes[i])
        /\ nodes[i].data.fontSize = Px(36)
        /\ withUpdatedTextMetrics(nodes[i].data, [fontSize |-> NaN]).fontSize
               = Px(36)
        /\ withUpdatedTextMetrics([nodes[i].data EXCEPT !.radius = Num(0)],
                                  [radius |-> NaN]).radius = Px(150)

\* The coordinates and grid sizes the snapping is looked at.
SnapCoordinates == (0 - 2 * GRID_SIZE - 1)..(2 * GRID_SIZE + 1)

SnapGridSizes == {1, 5, GRID_SIZE}

\* The nodes of the document, now or in its history.
NodesReached ==
    {nodes[i] : i \in 1..Len(nodes)}
    \cup UNION {{past[h][i] : i \in 1..Len(past[h])} : h \in 1..Len(past)}

\* The pure part: snapping twice is snapping once, the result is a multiple
\* of the grid size, and a snapped node comes back as the same node.
SnapIdempotentCases ==
    /\ \A x \in SnapCoordinates : \A g \in SnapGridSizes :
          /\ snapToGrid(snapToGrid(x, g), g) = snapToGrid(x, g)
          /\ snapToGrid(x, g) % g = 0
    /\ \A node \in NodesReached :
          LET snapped == snapDocumentNodeToGrid(node, GRID_SIZE).value
              again == snapDocumentNodeToGrid(snapped, GRID_SIZE)
          IN  again.same /\ again.value = snapped

\* C29: snapToGrid(snapToGrid(x, g), g) = snapToGrid(x, g) for every
\* coordinate x and grid size g > 0, the result is a multiple of g, and
\* snapping the x and y of an already snapped node returns the same node:
\* when the grid is switched on over nodes that are all on the grid, no
\* change is recorded (the document and its history stay as they are).
C29_SnapIdempotent ==
    /\ []SnapIdempotentCases
    /\ [][(showGrid' /\ ~showGrid
           /\ \A i \in 1..Len(nodes) :
                 snapToGrid(nodes[i].data.x, GRID_SIZE) = nodes[i].data.x
                 /\ snapToGrid(nodes[i].data.y, GRID_SIZE) = nodes[i].data.y)
          => UNCHANGED <<nodes, past, future>>]_vars

\* C29 witness: the grid was switched on over a text node that an earlier
\* grid switch moved from 180 to 192, and this time nothing was recorded.
C29_Witness ==
    /\ showGrid
    /\ texObs.op = "toggleGrid"
    /\ lastOp = [name |-> "toggleGrid", changed |-> FALSE]
    /\ Len(past) = 2
    /\ \E i \in 1..Len(nodes) : isTextNode(nodes[i]) /\ nodes[i].data.x = 192
    /\ \E i \in 1..Len(past[2]) : isTextNode(past[2][i]) /\ past[2][i].data.x = DEFAULT_TEXT_POSITION

\* A rectangle of positive width and height that has points on both sides
\* of one of the four edges of the frame.
Straddles(frame, r) ==
    /\ r.width > 0 /\ r.height > 0
    /\ \/ r.x < frame.x /\ r.x + r.width > frame.x
       \/ r.x < frame.x + frame.width /\ r.x + r.width > frame.x + frame.width
       \/ r.y < frame.y /\ r.y + r.height > frame.y
       \/ r.y < frame.y + frame.height /\ r.y + r.height > frame.y + frame.height

\* A rectangle all of whose points are points of the frame.
FullyWithin(frame, r) ==
    \A px \in {r.x, r.x + r.width} : \A py \in {r.y, r.y + r.height} :
        /\ frame.x <= px /\ px <= frame.x + frame.width
        /\ frame.y <= py /\ py <= frame.y + frame.height

\* C30: for every dieline frame and every rectangle the containment test
\* answers inside when the rectangle lies fully within the dieline bounds,
\* outside when a rectangle of positive size straddles one of the four
\* edges, and inside for every rectangle whose width or height is zero,
\* wherever it is placed.
C30_Containment ==
    /\ dielineObs.tested =>
          /\ FullyWithin(dielineObs.frame, dielineObs.bounds) => dielineObs.inside
          /\ Straddles(dielineObs.frame, dielineObs.bounds) => ~dielineObs.inside
          /\ (dielineObs.bounds.width = 0 \/ dielineObs.bounds.height = 0)
                => dielineObs.inside
    /\ dieline.loaded =>
          \A r \in RectBoundsCases :
              /\ FullyWithin(dieline, r) => isInsideDieline(dieline, r)
              /\ Straddles(dieline, r) => ~isInsideDieline(dieline, r)
              /\ (r.width = 0 \/ r.height = 0) => isInsideDieline(dieline, r)

\* C30 witness: the frame from (-10, 0) to (90, 100) was tested against a
\* rectangle across its right edge (outside); it contains the rectangle at
\* (5, 5) and holds a rectangle of width 0 placed left of it as inside.
C30_Witness ==
    /\ dielineObs.tested
    /\ dielineObs.frame = [loaded |-> TRUE, x |-> 0 - 10, y |-> 0,
                           width |-> MaxFrame, height |-> MaxFrame]
    /\ dielineObs.bounds = [x |-> MaxFrame - 15, y |-> 5, width |-> 10, height |-> 10]
    /\ ~dielineObs.inside
    /\ isInsideDieline(dielineObs.frame, [x |-> 5, y |-> 5, width |-> 10, height |-> 10])
    /\ isInsideDieline(dielineObs.frame, [x |-> 0 - 20, y |-> 0 - 5, width |-> 0, height |-> 10])

\* The description has a path primitive with path data.
HasPathWithData(elements) ==
    \E i \in 1..Len(elements) : elements[i].tag = "path" /\ elements[i].d

\* C31: loading a dieline returns a document only when the width and the
\* height the description resolves to are strictly positive and at least one
\* path exists; it fails when one of them is zero, negative or not a number,
\* or when there is no path with data.
C31_DocumentOnlyForPositiveSize ==
    (loadObs.settled /\ loadObs.result.ok) =>
        /\ IsFinite(loadObs.result.width) /\ loadObs.result.width.v > 0
        /\ IsFinite(loadObs.result.height) /\ loadObs.result.height.v > 0
        /\ HasPathWithData(loadObs.description.elements)
        /\ Len(loadObs.result.paths) >= 1

\* The tag of a path by its own id or, failing that, by the id of its
\* nearest ancestor group.
OwnOrGroupType(elements, i) ==
    LET own == groupIdToType(elements[i].id)
        groups == SelectSeq(AncestorsOf(elements, i), LAMBDA a : elements[a].tag = "g")
    IN  IF own # "unknown" THEN own
        ELSE IF groups = <<>> THEN "unknown"
        ELSE groupIdToType(elements[groups[1]].id)

\* C32: every path primitive of the description appears exactly once in the
\* path list of the loaded document, tagged cut, safe or bleed by its own id
\* or, failing that, by the id of its nearest ancestor group, and unknown
\* when neither matches.
C32_EachPathOnceWithItsTag ==
    (loadObs.settled /\ loadObs.result.ok) =>
        LET elements == loadObs.description.elements
            paths == loadObs.result.paths
        IN  \A i \in 1..Len(elements) :
                (elements[i].tag = "path" /\ elements[i].d) =>
                    /\ Cardinality({k \in 1..Len(paths) : paths[k].element = i}) = 1
                    /\ \A k \in 1..Len(paths) :
                          paths[k].element = i
                              => paths[k].type = OwnOrGroupType(elements, i)

\* The state the components and the stores share: the document, the queued
\* placement, and the component state of the stage and of the pictures.
SharedState == <<nodes, selection, past, future, pendingPlacement, dieline, error, images>>

\* C33: a load that was cancelled (by the teardown of the canvas or by a new
\* run of its effect) changes nothing when it completes afterwards: no node is
\* added, the selection and the queued placement stay, no component state is
\* set.  This is the dieline load (isMounted), the image of a placement
\* (isCancelled) and the picture of useImage (onload taken off).
C33_CancelledLoadWritesNothing ==
    [][/\ (\E load \in dielineLoads :
              ~load.isMounted /\ dielineLoads' = dielineLoads \ {load})
          => UNCHANGED SharedState
       /\ (\E load \in placementLoads :
              load.isCancelled /\ placementLoads' = placementLoads \ {load})
          => UNCHANGED SharedState
       /\ (\E load \in imageLoads :
              ~load.onload /\ imageLoads' = imageLoads \ {load})
          => UNCHANGED SharedState]_vars

\* C33 witness: a dieline load, the image of a placement that is still queued
\* and the picture of a node have each completed after they were cancelled.
C33_Witness ==
    /\ loadObs.settled /\ loadObs.cancelled /\ loadObs.result.ok
    /\ placementObs.step = "settle" /\ placementObs.id = 0
    /\ pendingPlacement.n = placementObs.n
    /\ imageObs.settled /\ ~imageObs.handled
    /\ Len(nodes) > 0


\* A placement that names an asset the library does not hold.
NamesUnknownAsset(placement) ==
    /\ placement # NoPlacement
    /\ placement.assetId \notin ImageAssets \cup PdfAssets

\* C40: each queued placement adds at most one node; in the step that adds
\* the node the queued placement becomes null and the new node becomes the
\* selection, also when the effect ran again or the canvas was torn down
\* while the image loaded; a placement that names an unknown asset is
\* consumed by the effect without a node being added.
C40_OneNodePerPlacement ==
    /\ [](\A k \in 1..MaxPlacements : placementObs.added[k] <= 1)
    /\ [][/\ Len(nodes') > Len(nodes)
             => /\ Len(nodes') = Len(nodes) + 1
                /\ pendingPlacement' = NoPlacement
                /\ selection' = <<nodes'[Len(nodes')].id>>
          /\ (/\ mounted' /\ placementDeps' # placementDeps
              /\ dieline.loaded /\ NamesUnknownAsset(pendingPlacement))
             => /\ nodes' = nodes
                /\ pendingPlacement' = NoPlacement]_vars

\* C40 witness: the first placement has its node although a run of the effect
\* for it was cancelled and is still loading, and the second placement, which
\* named an unknown asset, has been consumed.
C40_Witness ==
    /\ placementObs.added[1] = 1
    /\ \E load \in placementLoads : load.isCancelled /\ load.n = 1
    /\ placementObs.step = "unknown" /\ placementObs.n = 2
    /\ pendingPlacement = NoPlacement
    /\ Len(nodes) = 1 /\ selection = <<nodes[1].id>>

\* A step in which the natural-size effect gives an image node the width and
\* height it lacked.
FillInStep ==
    /\ lastOp'.name = "fillSize"
    /\ Len(nodes') = Len(nodes)
    /\ \E i \in 1..Len(nodes) :
          /\ nodes'[i].id = nodes[i].id
          /\ LacksSize(nodes[i])
          /\ ~LacksSize(nodes'[i])

\* C38: filling in the missing width and height of an image node when its
\* picture has loaded is not a committing edit: past and future are the same
\* after it.
C38_FillInKeepsHistory == [][FillInStep => past' = past /\ future' = future]_vars

\* C39: a change committed through a change handler of the canvas alters only
\* the node it is for; every other node keeps the data the store holds for it
\* at that moment, also when two handlers run between two renders.  For the
\* natural-size effects of one render this means: every node one of them
\* filled in has its size when they are through.
C39_CommitAltersOnlyItsTarget ==
    [][FillInStep
       => \A i \in 1..Len(nodes) :
             (/\ nodes[i].type = "image"
              /\ [node |-> nodes[i].id, image |-> TRUE] \in images
              /\ LacksSize(nodes[i]))
             => ~LacksSize(nodes'[i])]_vars

\* C34: when the node's aspect-ratio lock is on, the constrained box is the
\* old box scaled by max(|newWidth / oldWidth|, |newHeight / oldHeight|), so
\* its sides keep the old ratio, and the corner opposite the active handle
\* stays where the old box has it; every constrained box is at least the
\* minimum transform size wide and high.
C34_UniformScaleFromOppositeCorner ==
    resizeObs.done /\ resizeObs.activeAnchor # ""
    => LET oldBox == resizeObs.oldBox
           newBox == resizeObs.newBox
           box == resizeObs.box
           anchor == resizeObs.activeAnchor
       IN  /\ box.width >= MIN_TRANSFORM_SIZE * box.den
           /\ box.height >= MIN_TRANSFORM_SIZE * box.den
           /\ resizeObs.locked
              => /\ box.width * oldBox.height = box.height * oldBox.width
                 /\ box.width >= Abs(newBox.width) * box.den
                 /\ box.height >= Abs(newBox.height) * box.den
                 /\ \/ box.width = Abs(newBox.width) * box.den
                    \/ box.height = Abs(newBox.height) * box.den
                 /\ IF IncludesLeft(anchor)
                    THEN box.x + box.width = (oldBox.x + oldBox.width) * box.den
                    ELSE box.x = oldBox.x * box.den
                 /\ IF IncludesTop(anchor)
                    THEN box.y + box.height = (oldBox.y + oldBox.height) * box.den
                    ELSE box.y = oldBox.y * box.den

\* C35: after the last trigger from outside the pipeline is quiet: one
\* rasterization run, and then no timeout pending until the next trigger; the
\* redraws the run itself forces schedule no further run.  On an unrotated
\* canvas the draw that is pending right after a run is the one the run
\* forced (every other cause of a draw sets a new timeout), so the draw event
\* that follows must leave the pipeline without a timeout.
C35_ForcedRedrawSchedulesNoRun ==
    [][(/\ texObs.op = "timerFires" /\ texObs.ran
        /\ canvasRotation % FullTurn = 0
        /\ drawPending /\ timers = {}
        /\ texObs'.op = "draw")
       => timers' = {}]_vars

\* The material of a face shows the texture of the raster the store holds
\* for the face, or none when the store holds none.
ShowsStoreRaster(key) == materialMap[key].dataUrl = faces[key].dataUrl

\* C36: whenever the version the preview last recorded for a face is the
\* face's version in the store and no load for the face is in flight, the
\* texture the face shows was loaded from the store's raster for it (none
\* when the raster is null), also after resetFaceTextures and new
\* publications.
C36_RecordedVersionMeansCurrentTexture ==
    \A key \in BoxFaceKey :
        (/\ mounted
         /\ faceVersionsRef[key] = faces[key].version
         /\ \A load \in loads : load.face # key)
        => ShowsStoreRaster(key)

\* C37: under fairness, unless the store's faces keep changing for ever,
\* every face of a mounted preview eventually shows, and keeps showing, the
\* texture of the store's latest raster, also when a load completes with an
\* error.
C37_EventuallyShowsLatest ==
    \/ []<><<faces' # faces>>_vars
    \/ <>[](mounted => \A key \in BoxFaceKey : ShowsStoreRaster(key))

====
